---- MODULE Spec2Model ----
(***************************************************************************)
(* Model of the Lean / Plaid credential-hiding proxy (server.js) and of    *)
(* the Plaid front end's link-token retry (plaid-app.js).                  *)
(*                                                                         *)
(* Spec      : the Lean token lifecycle of server.js.  A request slot     *)
(*             runs the server's async functions; every await of          *)
(*             makeRequest is a point where the clock may advance.        *)
(* SpecPlaid : initializePlaid of plaid-app.js talking to the              *)
(*             /api/plaid/create-link-token handler of server.js.          *)
(* SpecFrontDoor : the request listener of server.js: route dispatch,      *)
(*             request bodies and static file serving.                     *)
(* SpecBalances  : the /api/plaid/balances route and getPlaidBalances.     *)
(* SpecWallet    : the wallet page (crypto-wallet-app.js): connecting,     *)
(*             demo mode, ownership verification and disconnecting.        *)
(* SpecRace      : two requests in flight at once over the one token      *)
(*             cache of server.js.                                         *)
(* SpecPlaidPage : SpecPlaid together with the page's second button,       *)
(*             openPlaidWithManualToken.                                   *)
(* SpecLog       : the /api/save-connection and /api/plaid/save-connection *)
(*             handlers of server.js and their master log files, with two  *)
(*             requests in flight.                                         *)
(***************************************************************************)
EXTENDS Integers, Sequences, FiniteSets, TLC

(***************************************************************************)
(* Bounds                                                                  *)
(***************************************************************************)
MaxTicks == 3
MaxIssued == 3
MaxSaved == 2

(***************************************************************************)
(* Program constants                                                       *)
(***************************************************************************)
MsPerSecond == 1000

(***************************************************************************)
(* JavaScript values.  Every value is a record of one shape so that values *)
(* of different JavaScript types can be compared.                          *)
(***************************************************************************)
Null == [k |-> "null", n |-> 0, s |-> ""]
Undefined == [k |-> "undefined", n |-> 0, s |-> ""]
NaN == [k |-> "NaN", n |-> 0, s |-> ""]
Num(x) == [k |-> "number", n |-> x, s |-> ""]
Str(x) == [k |-> "string", n |-> 0, s |-> x]
\* An array of n items; s names them.
Arr(x, n) == [k |-> "array", n |-> n, s |-> x]

\* JavaScript truthiness: null, undefined, NaN, 0 and "" are falsy.
Truthy(v) ==
    CASE v.k = "null" -> FALSE
      [] v.k = "undefined" -> FALSE
      [] v.k = "NaN" -> FALSE
      [] v.k = "number" -> v.n # 0
      [] v.k = "string" -> v.s # ""
      [] v.k = "array" -> TRUE

\* a || b
Or(a, b) == IF Truthy(a) THEN a ELSE b

\* Template-literal conversion `${v}`.
ToStr(v) ==
    CASE v.k = "null" -> "null"
      [] v.k = "undefined" -> "undefined"
      [] v.k = "NaN" -> "NaN"
      [] v.k = "number" -> ToString(v.n)
      [] v.k = "string" -> v.s

\* ToNumber as the relational operators and arithmetic apply it.
ToNumber(v) ==
    CASE v.k = "null" -> Num(0)
      [] v.k = "undefined" -> NaN
      [] v.k = "NaN" -> NaN
      [] v.k = "number" -> v
      [] v.k = "string" -> NaN

\* a >= b on numbers: false as soon as one side is NaN.
GreaterEq(a, b) ==
    LET x == ToNumber(a)
        y == ToNumber(b)
    IN  x.k = "number" /\ y.k = "number" /\ x.n >= y.n

Times(a, b) ==
    LET x == ToNumber(a)
        y == ToNumber(b)
    IN  IF x.k = "number" /\ y.k = "number" THEN Num(x.n * y.n) ELSE NaN

Plus(a, b) ==
    LET x == ToNumber(a)
        y == ToNumber(b)
    IN  IF x.k = "number" /\ y.k = "number" THEN Num(x.n + y.n) ELSE NaN

(***************************************************************************)
(* The vendor (Lean) as seen through makeRequest.                          *)
(***************************************************************************)
\* Token values the auth endpoint hands out: the n-th issued token.
Token(n) == Str("tok" \o ToString(n))

\* Messages are sequences of words; includes is String.prototype.includes
\* for a word.
Includes(message, word) == \E i \in 1..Len(message) : message[i] = word

SocketError == <<"ECONNRESET">>

\* Variant: every HTTP answer resolves, whatever its status.
makeRequest_ResolvesAnyStatus(status, body, text) ==
    IF status = 0
    THEN [ok |-> FALSE, data |-> body, error |-> SocketError]
    ELSE [ok |-> TRUE, data |-> body, error |-> <<>>]

\* Variant: a rejection does not say what the vendor answered.
makeRequest_DropsVendorAnswer(status, body, text) ==
    IF status = 0
    THEN [ok |-> FALSE, data |-> body, error |-> SocketError]
    ELSE IF status >= 200 /\ status < 300
         THEN [ok |-> TRUE, data |-> body, error |-> <<>>]
         ELSE [ok |-> FALSE, data |-> body, error |-> <<"Request", "failed">>]

\* What makeRequest does with a vendor answer (status 0: the socket failed).
\* A 2xx answer resolves with the parsed body; any other status rejects with
\* new Error(`HTTP ${res.statusCode}: ${data}`); a socket error rejects with
\* the error itself.  body is the parsed body, text the words of the raw one.
makeRequest(status, body, text) ==
    IF status = 0
    THEN [ok |-> FALSE, data |-> body, error |-> SocketError]
    ELSE IF status >= 200 /\ status < 300
         THEN [ok |-> TRUE, data |-> body, error |-> <<>>]
         ELSE [ok |-> FALSE, data |-> body,
               error |-> <<"HTTP", ToString(status) \o ":">> \o text]

\* The raw body of a failing Lean answer.
LeanErrorText == <<"unauthorized">>

\* Status 0 stands for a socket error (no HTTP answer).
VendorStatus == {0, 200, 401}

\* Bodies of the token endpoint: access_token and expires_in may each be
\* absent (an empty or non-JSON 2xx body has neither); lifetimes are in
\* seconds and positive.
TokenBody(tok, ein, scope) == [access_token |-> tok, expires_in |-> ein, scope |-> scope]
NoTokenBody == TokenBody(Undefined, Undefined, Undefined)

\* Bodies of POST /customers/v1.
CustomerBody(cid, id, uid) == [customer_id |-> cid, id |-> id, app_user_id |-> uid]
NoCustomerBody == CustomerBody(Undefined, Undefined, Undefined)
CustomerBodies(uid) ==
    {CustomerBody(Str("c1"), Undefined, uid),
     CustomerBody(Undefined, Str("c2"), uid),
     NoCustomerBody}

(***************************************************************************)
(* Pure pieces of server.js                                                *)
(***************************************************************************)
\* `customer.${customerId}`
CustomerScope(customerId) == "customer." \o ToStr(customerId)

\* Variant: the cache is never trusted.
TokenExpired_NeverCached(token, expiry, t) == TRUE

\* Variant: Date.now() > apiTokenExpiry.
TokenExpired_StrictlyAfter(token, expiry, t) ==
    (~Truthy(token)) \/ (GreaterEq(Num(t), expiry) /\ Num(t) # ToNumber(expiry))

\* !apiAccessToken || Date.now() >= apiTokenExpiry
TokenExpired(token, expiry, t) == (~Truthy(token)) \/ GreaterEq(Num(t), expiry)

\* Date.now() + (data.expires_in * 1000)
ExpiryOf(t, expiresIn) == Plus(Num(t), Times(expiresIn, Num(MsPerSecond)))

\* customer.customer_id || customer.id
CustomerIdOf(customer) == Or(customer.customer_id, customer.id)

(***************************************************************************)
(* State                                                                   *)
(***************************************************************************)
VARIABLES
    apiAccessToken,   \* server.js: cached API access token
    apiTokenExpiry,   \* server.js: its expiry instant (ms)
    now,              \* Date.now()
    issued,           \* number of tokens the auth endpoint has handed out
    lastCustomerToken,\* scope and expiry of the customer token issued last (history)
    procs,            \* per request slot: position and locals of its handler
    plaidLinkToken,   \* plaid-app.js: link token of the last successful creation
    plaidHandler,     \* plaid-app.js: handler returned by Plaid.create
    fe,               \* plaid-app.js: position and locals of initializePlaid
    net,              \* the create-link-token exchange in flight
    door,             \* server.js: the request at the front door and its handler
    disk,             \* the files of the server's working directory
    bal,              \* server.js: a /api/plaid/balances request and its handler
    wallet,           \* crypto-wallet-app.js: globals, page and the request sent last
    conn              \* server.js: the master logs and the save-connection requests

leanVars == <<apiAccessToken, apiTokenExpiry, now, issued, lastCustomerToken, procs>>
plaidVars == <<plaidLinkToken, plaidHandler, fe, net>>
doorVars == <<door, disk>>

\* What the actions of one part of the model leave alone.
balVars == <<bal>>
walletVars == <<wallet>>
connVars == <<conn>>
notLean == <<plaidVars, doorVars, balVars, walletVars, connVars>>
notPlaid == <<leanVars, doorVars, balVars, walletVars, connVars>>
notDoor == <<leanVars, plaidVars, balVars, walletVars, connVars>>
notBalances == <<leanVars, plaidVars, doorVars, walletVars, connVars>>
notWallet == <<leanVars, plaidVars, doorVars, balVars, connVars>>
notConn == <<leanVars, plaidVars, doorVars, balVars, walletVars>>

ProxyOps == {"getAccounts", "getAccountBalances", "getAccountTransactions",
             "listConsents", "deleteConsent"}

\* The request a slot is awaiting.  History: window tells where the instant
\* it was sent lies to the cached API token's expiry, scopeWindow where it
\* lies to the expiry of the token issued last for the request's own scope.
NoReq == [kind |-> "none", scope |-> "", bearer |-> Undefined, cached |-> FALSE,
          window |-> "none", scopeWindow |-> "none"]

NoCustomerToken == [scope |-> "", exp |-> Undefined]

NoResult == [http |-> 0, success |-> FALSE, customer_id |-> Undefined,
             app_user_id |-> Undefined, access_token |-> Undefined,
             token_expires_in |-> Undefined, token_scope |-> Undefined,
             error |-> <<>>, data |-> Undefined, envelope |-> "none"]

IdleProc ==
    [op |-> "none", pc |-> "idle", appUserId |-> Undefined, argCustomerId |-> Undefined,
     customerId |-> Undefined, wf |-> <<>>,
     missing |-> FALSE,      \* history: the request lacked a required field
     answers |-> <<>>,       \* history: the statuses the vendor answered with
     apiCalls |-> 0, apiDone |-> 0, custCalls |-> 0, restCalls |-> 0,
     seen |-> "none", callsAtCheck |-> 0, createFailed |-> FALSE, custScope |-> "",
     req |-> NoReq, createResp |-> NoCustomerBody, custResp |-> NoTokenBody,
     result |-> NoResult]

\* History: where the instant t lies to the cached token's expires_at.
\*   "absent"  no token is cached
\*   "open"    t is before expires_at
\*   "closed"  t is at or after expires_at
\*   "unknown" the cached expiry is not a number
CacheWindow(token, expiry, t) ==
    IF ~Truthy(token) THEN "absent"
    ELSE IF expiry.k # "number" THEN "unknown"
    ELSE IF t < expiry.n THEN "open" ELSE "closed"

(***************************************************************************)
(* Requests leaving the server                                             *)
(***************************************************************************)
\* POST auth_url with scope `scope` (getApiAccessToken / getCustomerAccessToken
\* up to their await).
TokenRequest(pr, scope, token, expiry, last, t) ==
    [pr EXCEPT !.req = [kind |-> "token", scope |-> scope, bearer |-> Undefined,
                        cached |-> FALSE, window |-> CacheWindow(token, expiry, t),
                        scopeWindow |->
                            IF scope = "api" THEN CacheWindow(token, expiry, t)
                            ELSE IF scope = last.scope
                                 THEN CacheWindow(Str(scope), last.exp, t)
                                 ELSE "absent"],
               !.apiCalls = IF scope = "api" THEN @ + 1 ELSE @,
               !.custCalls = IF scope = "api" THEN @ ELSE @ + 1]

\* A vendor REST call with `Authorization: Bearer ${bearer}`.
RestRequest(pr, bearer, cached, token, expiry, t) ==
    [pr EXCEPT !.req = [kind |-> "rest", scope |-> "", bearer |-> bearer,
                        cached |-> cached, window |-> CacheWindow(token, expiry, t),
                        scopeWindow |-> "none"],
               !.restCalls = @ + 1,
               !.pc = "rest"]

\* getApiAccessToken up to its await.
getApiAccessTokenCall(pr, pc, token, expiry, t) ==
    [TokenRequest(pr, "api", token, expiry, NoCustomerToken, t) EXCEPT !.pc = pc]

\* getCustomerAccessToken up to its await.
getCustomerAccessTokenCall(pr, customerId, token, expiry, last, t) ==
    [TokenRequest(pr, CustomerScope(customerId), token, expiry, last, t)
        EXCEPT !.pc = "custToken", !.custScope = CustomerScope(customerId)]

\* The head shared by createCustomer, getAccounts, getAccountBalances,
\* getAccountTransactions, listConsents and deleteConsent:
\*     if (!apiAccessToken || Date.now() >= apiTokenExpiry) await getApiAccessToken();
\*     makeRequest(url, { headers: { Authorization: `Bearer ${apiAccessToken}` } })
EnsureTokenThenCall(pr, token, expiry, t) ==
    LET seen == [pr EXCEPT !.seen = CacheWindow(token, expiry, t),
                           !.callsAtCheck = pr.apiCalls]
    IN  IF TokenExpired(token, expiry, t)
        THEN getApiAccessTokenCall(seen, "refresh", token, expiry, t)
        ELSE RestRequest(seen, token, TRUE, token, expiry, t)

(***************************************************************************)
(* Results                                                                 *)
(***************************************************************************)
\* A handler that has answered awaits nothing and holds no locals.
Answered(pr, result) ==
    [pr EXCEPT !.pc = "done", !.req = NoReq, !.result = result,
               !.seen = "none", !.callsAtCheck = 0]

\* catch (error) { return { success: false, error: error.message } }
WorkflowFailure(pr, error) ==
    Answered([pr EXCEPT !.wf = Append(@, "FAILED")],
             [NoResult EXCEPT !.http = 200, !.success = FALSE, !.error = error,
                              !.envelope = "workflow"])

\* The return value of initializeCustomer on success.
initializeCustomerResult(customerId, customer, customerToken) ==
    [NoResult EXCEPT !.http = 200, !.success = TRUE, !.envelope = "workflow",
                     !.customer_id = customerId,
                     !.app_user_id = customer.app_user_id,
                     !.access_token = customerToken.access_token,
                     !.token_expires_in = customerToken.expires_in,
                     !.token_scope = customerToken.scope]

\* The return value of getTokensForCustomer on success.
getTokensForCustomerResult(customerId, customerToken) ==
    [NoResult EXCEPT !.http = 200, !.success = TRUE, !.envelope = "workflow",
                     !.customer_id = customerId,
                     !.access_token = customerToken.access_token,
                     !.token_expires_in = customerToken.expires_in,
                     !.token_scope = customerToken.scope]

\* The catch block of a proxy route: 500 and { success: false, error }.
HandlerFailure(pr, error) ==
    Answered(pr, [NoResult EXCEPT !.http = 500, !.success = FALSE, !.error = error,
                                  !.envelope = "error"])

\* The 200 answer of a proxy route: the vendor's data relayed as it is, or,
\* for /api/consents/delete, wrapped as { success: true, data: result }.
HandlerSuccess(pr, data) ==
    Answered(pr, IF pr.op = "deleteConsent"
                 THEN [NoResult EXCEPT !.http = 200, !.success = TRUE,
                                       !.data = data, !.envelope = "wrapped"]
                 ELSE [NoResult EXCEPT !.http = 200, !.data = data, !.envelope = "relay"])

\* The 400 answer of a route whose required field is missing.
ValidationFailure(pr, error) ==
    Answered(pr, [NoResult EXCEPT !.http = 400, !.success = FALSE, !.error = error,
                                  !.envelope = "error"])

(***************************************************************************)
(* Vendor answers                                                          *)
(***************************************************************************)
\* Answers of the auth endpoint to a scope-api request: a fresh token while
\* the vendor still hands them out, or a 2xx body without one.
ApiTokenAnswers ==
    {TokenBody(tok, ein, Str("api")) :
        tok \in (IF issued < MaxIssued THEN {Token(issued + 1)} ELSE {}) \cup {Undefined},
        ein \in {Num(1), Num(2), Undefined}}

\* Answers of the auth endpoint to a customer-scope request: the scope is
\* echoed or not, and the body may carry nothing at all.
CustomerTokenAnswers(scope) ==
    {TokenBody(Str("ctokA"), Num(1), Str(scope)),
     TokenBody(Str("ctokB"), Num(2), Undefined),
     NoTokenBody}

RestBodies == {Str("data"), Undefined}

\* The cache after getApiAccessToken's continuation:
\*     apiAccessToken = data.access_token;
\*     apiTokenExpiry = Date.now() + (data.expires_in * 1000);
getApiAccessTokenStore(data, t) == <<data.access_token, ExpiryOf(t, data.expires_in)>>

\* Variant: the customer token is stored in the cache slot.
getCustomerAccessTokenStore_Caches(token, expiry, data, t) ==
    <<data.access_token, ExpiryOf(t, data.expires_in)>>

\* The cache after getCustomerAccessToken's continuation: it returns data
\* and assigns neither apiAccessToken nor apiTokenExpiry.
getCustomerAccessTokenStore(token, expiry, data, t) == <<token, expiry>>

(***************************************************************************)
(* Actions of the server                                                   *)
(***************************************************************************)
LeanInit ==
    /\ apiAccessToken = Null
    /\ apiTokenExpiry = Null
    /\ now = 0
    /\ issued = 0
    /\ lastCustomerToken = NoCustomerToken
    /\ procs = [p \in {"r1"} |-> IdleProc]

Free(p) == procs[p].pc \in {"idle", "done"}

\* JSON.parse(body) throws on a body that is not JSON: the catch block of
\* the route answers 500.
MalformedBody(pr) == HandlerFailure(pr, <<"SyntaxError">>)

\* POST /api/initialize-customer: the body is parsed and
\* initializeCustomer(app_user_id) runs up to the await of step 1; the route
\* does not look at app_user_id.
InitializeCustomerRoute(uid, malformed, token, expiry, t) ==
    LET pr == [IdleProc EXCEPT !.op = "initializeCustomer"]
    IN  IF malformed
        THEN MalformedBody(pr)
        ELSE getApiAccessTokenCall(
                [pr EXCEPT !.appUserId = uid, !.missing = ~Truthy(uid),
                           !.wf = <<"START">>],
                "step1", token, expiry, t)

StartInitializeCustomer(p) ==
    /\ Free(p)
    /\ \E uid \in {Str(u) : u \in {"user_abc"}} \cup {Undefined}, malformed \in BOOLEAN :
        procs' = [procs EXCEPT ![p] =
            InitializeCustomerRoute(uid, malformed, apiAccessToken, apiTokenExpiry, now)]
    /\ UNCHANGED <<apiAccessToken, apiTokenExpiry, now, issued, lastCustomerToken>>
    /\ UNCHANGED notLean

\* POST /api/get-customer-tokens: 400 without customer_id, otherwise
\* getTokensForCustomer(customer_id) up to the await of step 1.
GetCustomerTokensRoute(cid, malformed, token, expiry, t) ==
    LET pr == [IdleProc EXCEPT !.op = "getTokensForCustomer"]
    IN  IF malformed
        THEN MalformedBody(pr)
        ELSE IF ~Truthy(cid)
        THEN ValidationFailure([pr EXCEPT !.missing = TRUE], <<"customer_id is required">>)
        ELSE getApiAccessTokenCall([pr EXCEPT !.argCustomerId = cid, !.wf = <<"START">>],
                                   "step1", token, expiry, t)

StartGetTokensForCustomer(p) ==
    /\ Free(p)
    /\ \E cid \in {Str(c) : c \in {"c1", "c2"}} \cup {Undefined}, malformed \in BOOLEAN :
        procs' = [procs EXCEPT ![p] =
            GetCustomerTokensRoute(cid, malformed, apiAccessToken, apiTokenExpiry, now)]
    /\ UNCHANGED <<apiAccessToken, apiTokenExpiry, now, issued, lastCustomerToken>>
    /\ UNCHANGED notLean

\* GET /api/lean/banks: getLeanBanks up to the await of getApiAccessToken.
StartGetLeanBanks(p) ==
    /\ Free(p)
    /\ procs' = [procs EXCEPT ![p] =
            getApiAccessTokenCall([IdleProc EXCEPT !.op = "getLeanBanks"],
                                  "step1", apiAccessToken, apiTokenExpiry, now)]
    /\ UNCHANGED <<apiAccessToken, apiTokenExpiry, now, issued, lastCustomerToken>>
    /\ UNCHANGED notLean

\* The routes that read their fields from a JSON body.
BodyOps == {"listConsents", "deleteConsent"}

\* The fields a proxy route tests before it calls its function.
RequiredFields(op) ==
    CASE op \in {"getAccounts", "getAccountBalances", "getAccountTransactions"} ->
            {"entity_id"}
      [] op = "listConsents" -> {"customer_id", "entity_id"}
      [] op = "deleteConsent" -> {"customer_id", "entity_id", "consent_id"}

ValidationMessage(op) ==
    CASE op \in {"getAccounts", "getAccountBalances", "getAccountTransactions"} ->
            <<"entity_id is required">>
      [] op = "listConsents" -> <<"customer_id and entity_id are required">>
      [] op = "deleteConsent" -> <<"customer_id, entity_id, and consent_id are required">>

\* An account or consent route: 400 when a required field is falsy,
\* otherwise the proxy function up to its first await.  present is the set
\* of fields the request carries with a truthy value.
ProxyRoute(op, present, malformed, token, expiry, t) ==
    LET pr == [IdleProc EXCEPT !.op = op]
    IN  IF malformed /\ op \in BodyOps
        THEN MalformedBody(pr)
        ELSE IF RequiredFields(op) \ present # {}
        THEN ValidationFailure([pr EXCEPT !.missing = TRUE], ValidationMessage(op))
        ELSE EnsureTokenThenCall(pr, token, expiry, t)

StartProxy(p) ==
    /\ Free(p)
    /\ \E op \in ProxyOps :
       \E present \in SUBSET RequiredFields(op),
          malformed \in (IF op \in BodyOps THEN BOOLEAN ELSE {FALSE}) :
        procs' = [procs EXCEPT ![p] =
            ProxyRoute(op, present, malformed, apiAccessToken, apiTokenExpiry, now)]
    /\ UNCHANGED <<apiAccessToken, apiTokenExpiry, now, issued, lastCustomerToken>>
    /\ UNCHANGED notLean

\* GET /api/accounts?entity_id=...: getAccounts up to its first await.
StartGetAccounts(p) ==
    /\ Free(p)
    /\ procs' = [procs EXCEPT ![p] =
            ProxyRoute("getAccounts", {"entity_id"}, FALSE,
                       apiAccessToken, apiTokenExpiry, now)]
    /\ UNCHANGED <<apiAccessToken, apiTokenExpiry, now, issued, lastCustomerToken>>
    /\ UNCHANGED notLean

\* History: the vendor answered a call of the slot with `status`.
Heard(pr, status) == [pr EXCEPT !.answers = Append(@, status)]

\* Variant: the caller goes on to its REST call although no token came.
ApiTokenRejected_CallsAnyway(pr, error) ==
    RestRequest(pr, Undefined, FALSE, Undefined, Undefined, 0)

\* What runs when getApiAccessToken's makeRequest rejects: the error
\* propagates to the catch of the workflow or of the route.
ApiTokenRejected(pr, error) ==
    IF pr.op \in {"initializeCustomer", "getTokensForCustomer"}
    THEN WorkflowFailure(pr, error)
    ELSE HandlerFailure(pr, error)

\* Variant: the 2-step flow provisions a customer as the 3-step flow does.
AfterApiToken_ProvisionsAnyway(pr, data, token, expiry, last, t) ==
    LET done == [pr EXCEPT !.apiDone = @ + 1]
    IN  CASE pr.pc = "refresh" ->
                RestRequest(done, token, TRUE, token, expiry, t)
          [] pr.pc = "step1" /\ pr.op \in {"initializeCustomer", "getTokensForCustomer"} ->
                EnsureTokenThenCall([done EXCEPT !.wf = Append(@, "API_TOKEN_OBTAINED")],
                                    token, expiry, t)
          [] pr.pc = "step1" /\ pr.op = "getLeanBanks" ->
                IF data.access_token.k \in {"undefined", "null"}
                THEN HandlerFailure(done, <<"TypeError">>)
                ELSE RestRequest(done, Undefined, FALSE, token, expiry, t)

\* What runs after getApiAccessToken has stored the token and returned.
AfterApiToken(pr, data, token, expiry, last, t) ==
    LET done == [pr EXCEPT !.apiDone = @ + 1]
    IN  CASE pr.pc = "refresh" ->
                RestRequest(done, token, TRUE, token, expiry, t)
          [] pr.pc = "step1" /\ pr.op = "initializeCustomer" ->
                EnsureTokenThenCall([done EXCEPT !.wf = Append(@, "API_TOKEN_OBTAINED")],
                                    token, expiry, t)
          [] pr.pc = "step1" /\ pr.op = "getTokensForCustomer" ->
                getCustomerAccessTokenCall(
                    [done EXCEPT !.wf = Append(@, "API_TOKEN_OBTAINED")],
                    pr.argCustomerId, token, expiry, last, t)
          [] pr.pc = "step1" /\ pr.op = "getLeanBanks" ->
                \* tokenData is the returned access_token: a property read on
                \* undefined throws, on a string it yields undefined.
                IF data.access_token.k \in {"undefined", "null"}
                THEN HandlerFailure(done, <<"TypeError">>)
                ELSE RestRequest(done, Undefined, FALSE, token, expiry, t)

\* The auth endpoint answers a scope-api request.
ApiTokenResponse(p) ==
    /\ procs[p].pc \in {"step1", "refresh"}
    /\ \E status \in VendorStatus, body \in ApiTokenAnswers :
        LET r == makeRequest(status, body, LeanErrorText)
            cache == getApiAccessTokenStore(r.data, now)
        IN  IF r.ok
            THEN /\ apiAccessToken' = cache[1]
                 /\ apiTokenExpiry' = cache[2]
                 /\ issued' = IF Truthy(r.data.access_token) THEN issued + 1 ELSE issued
                 /\ procs' = [procs EXCEPT ![p] =
                        AfterApiToken(Heard(procs[p], status), r.data, cache[1], cache[2],
                                      lastCustomerToken, now)]
            ELSE /\ body = TokenBody(Undefined, Undefined, Str("api"))
                 /\ procs' = [procs EXCEPT ![p] =
                        ApiTokenRejected(Heard(procs[p], status), r.error)]
                 /\ UNCHANGED <<apiAccessToken, apiTokenExpiry, issued>>
    /\ UNCHANGED <<now, lastCustomerToken>>
    /\ UNCHANGED notLean

\* Variant: a rejected createCustomer does not stop the workflow.
AfterCreateCustomer_IgnoreFailure(pr, r, token, expiry, last, t) ==
    getCustomerAccessTokenCall(
        [pr EXCEPT !.createFailed = ~r.ok, !.customerId = CustomerIdOf(r.data)],
        CustomerIdOf(r.data), token, expiry, last, t)

\* initializeCustomer from the answer to createCustomer's POST on: a
\* rejection goes to the catch, a resolution to step 3 with
\* customerId = customer.customer_id || customer.id.
AfterCreateCustomer(pr, r, token, expiry, last, t) ==
    IF r.ok
    THEN getCustomerAccessTokenCall(
            [pr EXCEPT !.wf = Append(@, "CUSTOMER_CREATED"),
                       !.createResp = r.data,
                       !.customerId = CustomerIdOf(r.data)],
            CustomerIdOf(r.data), token, expiry, last, t)
    ELSE WorkflowFailure([pr EXCEPT !.createFailed = TRUE], r.error)

\* The vendor answers the REST call of a slot.
RestResponse(p) ==
    /\ procs[p].pc = "rest"
    /\ \E status \in VendorStatus :
         LET pr == Heard(procs[p], status) IN
         IF pr.op = "initializeCustomer"
         THEN \E body \in CustomerBodies(pr.appUserId) :
                LET r == makeRequest(status, body, LeanErrorText)
                IN  /\ r.ok \/ body = NoCustomerBody
                    /\ procs' = [procs EXCEPT ![p] =
                            AfterCreateCustomer(pr, r, apiAccessToken, apiTokenExpiry,
                                                lastCustomerToken, now)]
         ELSE \E body \in RestBodies :
                LET r == makeRequest(status, body, LeanErrorText)
                IN  IF r.ok
                    THEN procs' = [procs EXCEPT ![p] = HandlerSuccess(pr, r.data)]
                    ELSE /\ body = Undefined
                         /\ procs' = [procs EXCEPT ![p] = HandlerFailure(pr, r.error)]
    /\ UNCHANGED <<apiAccessToken, apiTokenExpiry, now, issued, lastCustomerToken>>
    /\ UNCHANGED notLean

\* The auth endpoint answers a customer-scope request.
CustomerTokenResponse(p) ==
    /\ procs[p].pc = "custToken"
    /\ \E status \in VendorStatus, body \in CustomerTokenAnswers(procs[p].req.scope) :
        LET pr == Heard(procs[p], status)
            r == makeRequest(status, body, LeanErrorText)
            cache == getCustomerAccessTokenStore(apiAccessToken, apiTokenExpiry, r.data, now)
            got == [pr EXCEPT !.custResp = r.data,
                              !.wf = @ \o <<"CUSTOMER_TOKEN_OBTAINED", "DONE">>]
        IN  IF r.ok
            THEN /\ apiAccessToken' = cache[1]
                 /\ apiTokenExpiry' = cache[2]
                 /\ lastCustomerToken' =
                        IF Truthy(r.data.access_token)
                        THEN [scope |-> pr.req.scope, exp |-> ExpiryOf(now, r.data.expires_in)]
                        ELSE lastCustomerToken
                 /\ UNCHANGED issued
                 /\ procs' = [procs EXCEPT ![p] =
                        IF pr.op = "initializeCustomer"
                        THEN Answered(got, initializeCustomerResult(pr.customerId,
                                                                    pr.createResp, r.data))
                        ELSE Answered(got, getTokensForCustomerResult(pr.argCustomerId,
                                                                      r.data))]
            ELSE /\ body = NoTokenBody
                 /\ procs' = [procs EXCEPT ![p] = WorkflowFailure(pr, r.error)]
                 /\ UNCHANGED <<apiAccessToken, apiTokenExpiry, issued, lastCustomerToken>>
    /\ UNCHANGED now
    /\ UNCHANGED notLean

\* Wall-clock time passes.
Tick ==
    /\ now < MaxTicks * MsPerSecond
    /\ now' = now + MsPerSecond
    /\ UNCHANGED <<apiAccessToken, apiTokenExpiry, issued, lastCustomerToken, procs>>
    /\ UNCHANGED notLean

LeanNext ==
    \/ \E p \in DOMAIN procs : StartInitializeCustomer(p)
    \/ \E p \in DOMAIN procs : StartGetTokensForCustomer(p)
    \/ \E p \in DOMAIN procs : StartGetLeanBanks(p)
    \/ \E p \in DOMAIN procs : StartProxy(p)
    \/ \E p \in DOMAIN procs : ApiTokenResponse(p)
    \/ \E p \in DOMAIN procs : RestResponse(p)
    \/ \E p \in DOMAIN procs : CustomerTokenResponse(p)
    \/ Tick

\* Two requests may be in flight at once: Node runs the continuation of
\* each awaited answer to its next await before it takes another answer.
RaceNext ==
    \/ \E p \in DOMAIN procs : StartGetAccounts(p)
    \/ \E p \in DOMAIN procs : ApiTokenResponse(p)
    \/ \E p \in DOMAIN procs : RestResponse(p)
    \/ Tick

vars == <<leanVars, plaidVars, doorVars, balVars, walletVars, connVars>>

(***************************************************************************)
(* Plaid: the /api/plaid/create-link-token route of server.js              *)
(***************************************************************************)
\* An HTTP answer of the route as fetch and response.json() deliver it.
HttpResponse(status, linkToken, error, errorType) ==
    [status |-> status, link_token |-> linkToken, error |-> error, error_type |-> errorType]

\* response.ok
Ok(response) == response.status >= 200 /\ response.status < 300

\* What Plaid answers to /link/token/create: a link token, a 2xx body
\* without one, INVALID_INSTITUTION, another invalid-input error, a server
\* error, or nothing (socket error).
PlaidAnswers ==
    {[status |-> 200, link_token |-> Str(t), text |-> <<>>] : t \in {"link-sandbox-a", "link-sandbox-b"}}
    \cup {[status |-> 200, link_token |-> Undefined, text |-> <<>>],
          [status |-> 400, link_token |-> Undefined,
           text |-> <<"INVALID_INPUT", "INVALID_INSTITUTION">>],
          [status |-> 400, link_token |-> Undefined,
           text |-> <<"INVALID_INPUT", "INVALID_FIELD">>],
          [status |-> 500, link_token |-> Undefined,
           text |-> <<"API_ERROR", "INTERNAL_SERVER_ERROR">>],
          [status |-> 0, link_token |-> Undefined, text |-> <<>>]}

\* The body createPlaidLinkToken posts: institution_id is part of it only
\* when the caller passed a truthy one.
createPlaidLinkToken(userId, institutionId) ==
    [client_user_id |-> userId,
     institution_id |-> IF Truthy(institutionId) THEN institutionId ELSE Undefined]

\* `user_${Date.now()}`
GeneratedUserId(t) == Str("user_" \o ToString(t))

\* The route up to its await:
\*     createPlaidLinkToken(user_id || `user_${Date.now()}`, institution_id || null)
LinkTokenRoute(body, t) ==
    createPlaidLinkToken(Or(body.user_id, GeneratedUserId(t)), Or(body.institution_id, Null))

\* Variant: the catch block does not look at the message.
LinkTokenRouteAnswer_AlwaysServerError(r) ==
    IF r.ok
    THEN HttpResponse(200, r.data, <<>>, "")
    ELSE HttpResponse(500, Undefined, r.error, "SERVER_ERROR")

\* Variant: the catch block answers every failure as an invalid institution.
LinkTokenRouteAnswer_AlwaysInvalidInstitution(r) ==
    IF r.ok
    THEN HttpResponse(200, r.data, <<>>, "")
    ELSE HttpResponse(400, Undefined, r.error, "INVALID_INSTITUTION")

\* The route from the await on: 200 with the vendor's data, or the catch
\* block, which answers 400 / INVALID_INSTITUTION when the message includes
\* INVALID_INSTITUTION and 500 / SERVER_ERROR otherwise.
LinkTokenRouteAnswer(r) ==
    IF r.ok
    THEN HttpResponse(200, r.data, <<>>, "")
    ELSE IF Includes(r.error, "INVALID_INSTITUTION")
         THEN HttpResponse(400, Undefined, r.error, "INVALID_INSTITUTION")
         ELSE HttpResponse(500, Undefined, r.error, "SERVER_ERROR")

(***************************************************************************)
(* Plaid: initializePlaid of plaid-app.js                                  *)
(***************************************************************************)
NoSent == [user_id |-> Undefined, institution_id |-> Undefined]

IdleFrontEnd ==
    [pc |-> "idle", userId |-> Undefined, selectedInstitution |-> Null,
     linkTokenRequest |-> NoSent, sdkLoaded |-> FALSE,
     sent |-> <<>>,          \* history: the bodies fetch has posted
     responses |-> <<>>,     \* history: the answers fetch has delivered
     vendor |-> <<>>,        \* history: what Plaid answered to each of them
     opened |-> FALSE, error |-> <<>>]

NoExchange == [stage |-> "none", body |-> NoSent, vendorBody |-> NoSent,
               response |-> (HttpResponse(0, Undefined, <<>>, ""))]

\* linkTokenRequest = { user_id: userId }, plus institution_id if one is selected
FirstRequest(userId, selectedInstitution) ==
    [user_id |-> userId,
     institution_id |-> IF Truthy(selectedInstitution) THEN selectedInstitution
                        ELSE Undefined]

\* Variant: the retry posts the request it posted before.
RetryRequest_KeepsInstitution(f) == f.linkTokenRequest

\* linkTokenRequest = { user_id: userId }
RetryRequest(f) == [user_id |-> f.userId, institution_id |-> Undefined]

\* Variant: any answer that is not ok is retried.
IsInvalidInstitution_AnyFailure(response) == ~Ok(response)

\* !response.ok && (data.error_type === 'INVALID_INSTITUTION' ||
\*                  (data.error && data.error.includes('INVALID_INSTITUTION')))
IsInvalidInstitution(response) ==
    /\ ~Ok(response)
    /\ \/ response.error_type = "INVALID_INSTITUTION"
       \/ (response.error # <<>> /\ Includes(response.error, "INVALID_INSTITUTION"))

\* Variant: the answer to the retry is examined like the first answer.
RetriesAgain_Loop(f, response) == IsInvalidInstitution(response)

\* The retry block is an if, entered for the first answer only.
RetriesAgain(f, response) == f.pc = "first" /\ IsInvalidInstitution(response)

\* catch (error): the error is shown; plaidLinkToken and plaidHandler stay.
Caught(f, error) == [f EXCEPT !.pc = "done", !.error = error]

\* fetch posts the current linkTokenRequest.
Post(f, pc) == [f EXCEPT !.pc = pc, !.sent = Append(@, f.linkTokenRequest)]

PlaidInit ==
    /\ plaidLinkToken = Null
    /\ plaidHandler = Null
    /\ fe = IdleFrontEnd
    /\ net = NoExchange

\* The user clicks: initializePlaid up to the await of the first fetch.
InitializePlaid ==
    /\ fe.pc \in {"idle", "done"}
    /\ \E input \in {"", "u1"}, inst \in {"ins_109508", "ins_3"} \cup {""}, sdk \in BOOLEAN :
        LET userId == IF input # "" THEN Str(input) ELSE GeneratedUserId(now)
            selected == IF inst # "" THEN Str(inst) ELSE Null
            f == [IdleFrontEnd EXCEPT !.userId = userId, !.selectedInstitution = selected,
                                      !.sdkLoaded = sdk,
                                      !.linkTokenRequest = FirstRequest(userId, selected)]
        IN  /\ fe' = Post(f, "first")
            /\ net' = [NoExchange EXCEPT !.stage = "toServer", !.body = f.linkTokenRequest]
    /\ UNCHANGED <<plaidLinkToken, plaidHandler>>
    /\ UNCHANGED notPlaid

\* The server runs the route up to the await of createPlaidLinkToken.
LinkTokenRouteStarts ==
    /\ net.stage = "toServer"
    /\ net' = [net EXCEPT !.stage = "toVendor", !.vendorBody = LinkTokenRoute(net.body, now)]
    /\ UNCHANGED <<plaidLinkToken, plaidHandler, fe>>
    /\ UNCHANGED notPlaid

\* Plaid answers and the route answers the browser.
LinkTokenRouteAnswers ==
    /\ net.stage = "toVendor"
    /\ \E a \in PlaidAnswers :
        /\ net' = [net EXCEPT !.stage = "toBrowser",
                              !.response = LinkTokenRouteAnswer(
                                               makeRequest(a.status, a.link_token, a.text))]
        /\ fe' = [fe EXCEPT !.vendor = Append(@, a)]
    /\ UNCHANGED <<plaidLinkToken, plaidHandler>>
    /\ UNCHANGED notPlaid

\* The server cannot be reached: fetch rejects and the catch block runs.
FetchFails ==
    /\ net.stage = "toServer"
    /\ net' = NoExchange
    /\ fe' = Caught(fe, <<"Failed to fetch">>)
    /\ UNCHANGED <<plaidLinkToken, plaidHandler>>
    /\ UNCHANGED notPlaid

\* Variant: the final answer is used without the two checks.
LinkTokenResponse_Unchecked ==
    /\ net.stage = "toBrowser"
    /\ net' = NoExchange
    /\ LET response == net.response
           f == [fe EXCEPT !.responses = Append(@, response)]
       IN  IF RetriesAgain(fe, response)
           THEN /\ fe' = [f EXCEPT !.pc = "delay"]
                /\ UNCHANGED <<plaidLinkToken, plaidHandler>>
           ELSE IF ~fe.sdkLoaded
           THEN /\ plaidLinkToken' = response.link_token
                /\ fe' = Caught(f, <<"Plaid Link SDK not loaded">>)
                /\ UNCHANGED plaidHandler
           ELSE /\ plaidLinkToken' = response.link_token
                /\ plaidHandler' = response.link_token
                /\ fe' = [f EXCEPT !.pc = "done", !.opened = TRUE]
    /\ UNCHANGED notPlaid

\* initializePlaid from an answer of fetch on: the retry block, or the
\* checks of the final answer, Plaid.create and open.
LinkTokenResponse ==
    /\ net.stage = "toBrowser"
    /\ net' = NoExchange
    /\ LET response == net.response
           f == [fe EXCEPT !.responses = Append(@, response)]
       IN  IF RetriesAgain(fe, response)
           THEN /\ fe' = [f EXCEPT !.pc = "delay"]
                /\ UNCHANGED <<plaidLinkToken, plaidHandler>>
           ELSE IF ~Ok(response)
           THEN /\ fe' = Caught(f, IF response.error # <<>> THEN response.error
                                   ELSE <<"Failed to create link token">>)
                /\ UNCHANGED <<plaidLinkToken, plaidHandler>>
           ELSE IF ~Truthy(response.link_token)
           THEN /\ fe' = Caught(f, <<"No link token returned from server">>)
                /\ UNCHANGED <<plaidLinkToken, plaidHandler>>
           ELSE IF ~fe.sdkLoaded
           THEN /\ plaidLinkToken' = response.link_token
                /\ fe' = Caught(f, <<"Plaid Link SDK not loaded">>)
                /\ UNCHANGED plaidHandler
           ELSE /\ plaidLinkToken' = response.link_token
                /\ plaidHandler' = response.link_token
                /\ fe' = [f EXCEPT !.pc = "done", !.opened = TRUE]
    /\ UNCHANGED notPlaid

\* The 500 ms of the retry block are over: the retry is posted.
RetryWithoutInstitution ==
    /\ fe.pc = "delay"
    /\ LET f == [fe EXCEPT !.linkTokenRequest = RetryRequest(fe)]
       IN  /\ fe' = Post(f, "retry")
           /\ net' = [NoExchange EXCEPT !.stage = "toServer", !.body = f.linkTokenRequest]
    /\ UNCHANGED <<plaidLinkToken, plaidHandler>>
    /\ UNCHANGED notPlaid

\* openPlaidWithManualToken: the user pastes a link token; an empty field
\* or a missing SDK ends it, otherwise the token is stored and Plaid Link is
\* created with it (and opened 100 ms later).
OpenPlaidWithManualToken ==
    /\ \E linkToken \in {"", "link-sandbox-pasted"}, sdk \in BOOLEAN :
        IF linkToken = "" \/ ~sdk
        THEN UNCHANGED <<plaidLinkToken, plaidHandler>>
        ELSE /\ plaidLinkToken' = Str(linkToken)
             /\ plaidHandler' = Str(linkToken)
    /\ UNCHANGED <<fe, net>>
    /\ UNCHANGED notPlaid

PlaidNext ==
    \/ InitializePlaid
    \/ LinkTokenRouteStarts
    \/ LinkTokenRouteAnswers
    \/ FetchFails
    \/ LinkTokenResponse
    \/ RetryWithoutInstitution

(***************************************************************************)
(* The HTTP front door of server.js                                        *)
(***************************************************************************)
\* The configuration read from the environment.
LEAN_CONFIG ==
    [client_id |-> "lean-client-id", client_secret |-> "lean-client-secret",
     auth_url |-> "lean-auth-url", api_url |-> "lean-api-url"]

PLAID_CONFIG == [client_id |-> "plaid-client-id", secret |-> "plaid-secret"]

\* What loadEnv reads from the .env file of the server's directory; the
\* credentials are there, or the file holds none and they come from the
\* environment of the process.
EnvFileContents ==
    {{"LEAN_CLIENT_ID=" \o LEAN_CONFIG.client_id,
      "LEAN_CLIENT_SECRET=" \o LEAN_CONFIG.client_secret,
      "PLAID_CLIENT_ID=" \o PLAID_CONFIG.client_id,
      "PLAID_SECRET=" \o PLAID_CONFIG.secret},
     {"# credentials are set in the environment"}}

\* A request URL is the sequence of its pieces: "/", "?" and the words
\* between them, so that ===, startsWith, split and the route patterns can be
\* computed on it.
IsPrefix(a, b) == Len(a) <= Len(b) /\ SubSeq(b, 1, Len(a)) = a

\* req.url.split('?')[0]
UrlPath(url) ==
    IF \E i \in 1..Len(url) : url[i] = "?"
    THEN SubSeq(url, 1, (CHOOSE i \in 1..Len(url) :
                            url[i] = "?" /\ \A j \in 1..(i - 1) : url[j] # "?") - 1)
    ELSE url

\* new URL(req.url, ...).searchParams.get('entity_id')
EntityIdOf(url) ==
    IF \E i \in 1..Len(url), j \in 1..Len(url) : i < j /\ url[i] = "?" /\ url[j] = "entity_id=e1"
    THEN Str("e1")
    ELSE Null

Api == <<"/", "api", "/">>

\* /^\/api\/accounts\/[^\/]+\/<word>/
MatchesAccountPattern(url, word) ==
    /\ IsPrefix(Api \o <<"accounts", "/">>, url)
    /\ \E k \in 6..Len(url) :
        /\ \A i \in 6..k : url[i] # "/"
        /\ Len(url) >= k + 2
        /\ url[k + 1] = "/"
        /\ url[k + 2] = word

\* The routes in the order of their tests.  shape tells how the handler is
\* built:
\*   "await"   try { await f(); 200 } catch { 500 }
\*   "config"  200 at once
\*   "account" URL parsing, entity_id test, then try { await f(); 200 } catch { 500 }
\*   "body"    req.on('end'): try { JSON.parse; [field test;] work; 200 } catch { ... }
\*   "file"    try { fs...; 200 } catch { 500 }
\* validates: the handler tests required fields; work: what it waits for
\* ("vendor" a vendor call, "workflow" a function that catches its own
\* errors, "fs" synchronous file operations).
Route(name, method, match, path, shape, validates, work) ==
    [name |-> name, method |-> method, match |-> match, path |-> path,
     shape |-> shape, validates |-> validates, work |-> work]

Routes ==
    << Route("lean/banks", "GET", "exact", Api \o <<"lean", "/", "banks">>,
             "await", FALSE, "vendor"),
       Route("config", "GET", "exact", Api \o <<"config">>, "config", FALSE, "none"),
       Route("initialize-customer", "POST", "exact", Api \o <<"initialize-customer">>,
             "body", FALSE, "workflow"),
       Route("get-customer-tokens", "POST", "exact", Api \o <<"get-customer-tokens">>,
             "body", TRUE, "workflow"),
       Route("balances", "GET", "balances", <<>>, "account", TRUE, "vendor"),
       Route("transactions", "GET", "transactions", <<>>, "account", TRUE, "vendor"),
       Route("accounts", "GET", "prefix", Api \o <<"accounts">>, "account", TRUE, "vendor"),
       Route("consents", "POST", "exact", Api \o <<"consents">>, "body", TRUE, "vendor"),
       Route("consents/delete", "POST", "exact", Api \o <<"consents", "/", "delete">>,
             "body", TRUE, "vendor"),
       Route("save-connection", "POST", "exact", Api \o <<"save-connection">>,
             "body", FALSE, "fs"),
       Route("plaid/create-link-token", "POST", "exact",
             Api \o <<"plaid", "/", "create-link-token">>, "body", FALSE, "vendor"),
       Route("plaid/exchange-token", "POST", "exact",
             Api \o <<"plaid", "/", "exchange-token">>, "body", TRUE, "vendor"),
       Route("plaid/accounts", "POST", "exact", Api \o <<"plaid", "/", "accounts">>,
             "body", TRUE, "vendor"),
       Route("plaid/balances", "POST", "exact", Api \o <<"plaid", "/", "balances">>,
             "body", TRUE, "vendor"),
       Route("plaid/transactions", "POST", "exact",
             Api \o <<"plaid", "/", "transactions">>, "body", TRUE, "vendor"),
       Route("plaid/auth", "POST", "exact", Api \o <<"plaid", "/", "auth">>,
             "body", TRUE, "vendor"),
       Route("plaid/save-connection", "POST", "exact",
             Api \o <<"plaid", "/", "save-connection">>, "body", FALSE, "fs"),
       Route("plaid/list-connections", "GET", "exact",
             Api \o <<"plaid", "/", "list-connections">>, "file", FALSE, "fs"),
       Route("plaid/list-users", "GET", "exact", Api \o <<"plaid", "/", "list-users">>,
             "file", FALSE, "fs"),
       Route("plaid/remove-item", "POST", "exact", Api \o <<"plaid", "/", "remove-item">>,
             "body", TRUE, "vendor"),
       Route("plaid/recipients", "POST", "exact", Api \o <<"plaid", "/", "recipients">>,
             "await", FALSE, "vendor"),
       Route("plaid/institutions", "POST", "prefix",
             Api \o <<"plaid", "/", "institutions">>, "body", FALSE, "vendor"),
       Route("plaid/webhook", "POST", "exact", Api \o <<"plaid", "/", "webhook">>,
             "body", FALSE, "fs"),
       Route("plaid/fire-webhook", "POST", "exact",
             Api \o <<"plaid", "/", "fire-webhook">>, "body", TRUE, "vendor"),
       Route("plaid/reset-login", "POST", "exact", Api \o <<"plaid", "/", "reset-login">>,
             "body", TRUE, "vendor"),
       Route("plaid/webhooks", "GET", "exact", Api \o <<"plaid", "/", "webhooks">>,
             "file", FALSE, "fs") >>

StaticRoute == Route("static", "", "", <<>>, "static", FALSE, "fs")

\* The test of one route's if.
RouteMatches(route, method, url) ==
    /\ method = route.method
    /\ CASE route.match = "exact" -> url = route.path
         [] route.match = "prefix" -> IsPrefix(route.path, url)
         [] route.match = "balances" -> MatchesAccountPattern(url, "balances")
         [] route.match = "transactions" -> MatchesAccountPattern(url, "transactions")

\* The first route whose if is true; static file serving when there is none.
Dispatch(method, url) ==
    IF \E i \in 1..Len(Routes) : RouteMatches(Routes[i], method, url)
    THEN Routes[CHOOSE i \in 1..Len(Routes) :
                    /\ RouteMatches(Routes[i], method, url)
                    /\ \A j \in 1..(i - 1) : ~RouteMatches(Routes[j], method, url)]
    ELSE StaticRoute

\* What res.writeHead and res.end put on the wire: the status, the
\* Content-Type and what the body carries.
Response(status, type, body) == [status |-> status, type |-> type, body |-> body]

Json == "application/json"

\* path.extname of the file path and the Content-Type chosen from it.
ExtName(path) ==
    IF Len(path) >= 2 /\ path[Len(path)] \in {".html", ".js", ".json", ".md"}
         /\ path[Len(path) - 1] # "/"
    THEN path[Len(path)]
    ELSE ""

MimeType(ext) ==
    CASE ext = ".html" -> "text/html"
      [] ext = ".js" -> "text/javascript"
      [] ext = ".json" -> Json
      [] OTHER -> "application/octet-stream"

\* filePath = '.' + urlPath, './' standing for './index.html'
FilePath(url) ==
    IF UrlPath(url) = <<"/">> THEN <<"/", "index", ".html">> ELSE UrlPath(url)

\* The files of the working directory, which is the directory of server.js
\* and of its .env.
DiskFiles(env) ==
    (<<"/", "index", ".html">> :> {"<html>"})
    @@ (<<"/", "app", ".js">> :> {"fetch"})
    @@ (<<"/", ".env">> :> env)

\* fs.readFile(filePath, callback) of the static file serving.
ServeFile(files, url) ==
    LET filePath == FilePath(url)
    IN  IF filePath \in DOMAIN files
        THEN Response(200, MimeType(ExtName(filePath)), files[filePath])
        ELSE IF filePath \in {<<"/", "connections">>}
             THEN Response(500, "", {"500 - Internal Server Error"})
             ELSE Response(404, "", {"404 - File Not Found"})

\* The URLs requests are made with.
Urls ==
    {Routes[i].path : i \in {j \in 1..Len(Routes) : Routes[j].match # "balances"
                                                    /\ Routes[j].match # "transactions"}}
    \cup {Api \o <<"accounts", "?", "entity_id=e1">>,
          Api \o <<"accounts", "/", "a1", "/", "balances">>,
          Api \o <<"accounts", "/", "a1", "/", "balances", "?", "entity_id=e1">>,
          Api \o <<"accounts", "/", "a1", "/", "transactions", "?", "entity_id=e1">>,
          Api \o <<"accounts", "/", "a1", "/", "other", "?", "entity_id=e1">>,
          Api \o <<"accounts", "-old", "?", "entity_id=e1">>,
          Api \o <<"plaid", "/", "institutions", "/", "search">>,
          Api \o <<"config", "?", "x=1">>,
          Api \o <<"unknown">>,
          <<"/">>,
          <<"/", "index", ".html">>,
          <<"/", "app", ".js", "?", "x=1">>,
          <<"/", ".env">>,
          <<"/", "connections">>,
          <<"/", "missing", ".html">>}

IdleDoor ==
    [pc |-> "idle", method |-> "", url |-> <<>>, route |-> StaticRoute,
     written |-> <<>>]

\* The handler writes an answer and has nothing left to do.
Answer(d, response) == [d EXCEPT !.pc = "closed", !.written = Append(@, response)]

\* An exception leaves the handler where no try block encloses it: the
\* promise of the request listener rejects and nothing is written.
Uncaught(d) == [d EXCEPT !.pc = "closed"]

\* The catch block of a route.
RouteCatch(d, invalidInstitution) ==
    IF d.route.name = "plaid/create-link-token" /\ invalidInstitution
    THEN Answer(d, Response(400, Json, {"error", "error_type"}))
    ELSE Answer(d, Response(500, Json, {"error"}))

\* The work of a route after its tests: a promise to wait for, or file
\* operations that succeed or throw.
RouteWork(d, fsOk) ==
    IF d.route.work = "fs"
    THEN IF fsOk THEN Answer(d, Response(200, Json, {"success"}))
                 ELSE RouteCatch(d, FALSE)
    ELSE [d EXCEPT !.pc = "await"]

\* The request listener up to its return.
RequestListener(method, url, hostOk, fsOk) ==
    LET route == Dispatch(method, url)
        d == [IdleDoor EXCEPT !.method = method, !.url = url, !.route = route]
    IN  IF method = "OPTIONS"
        THEN Answer([d EXCEPT !.route = StaticRoute], Response(200, "", {}))
        ELSE CASE route.shape = "config" ->
                    Answer(d, Response(200, Json,
                                       {LEAN_CONFIG.client_id, LEAN_CONFIG.auth_url,
                                        LEAN_CONFIG.api_url}))
               [] route.shape = "await" -> RouteWork(d, fsOk)
               [] route.shape = "account" ->
                    \* new URL(req.url, `http://${req.headers.host}`) throws on a
                    \* Host header that is not a host
                    IF ~hostOk THEN Uncaught(d)
                    ELSE IF ~Truthy(EntityIdOf(url))
                    THEN Answer(d, Response(400, Json, {"success", "error"}))
                    ELSE RouteWork(d, fsOk)
               [] route.shape = "body" -> [d EXCEPT !.pc = "body"]
               [] route.shape = "file" -> RouteWork(d, fsOk)
               [] route.shape = "static" -> [d EXCEPT !.pc = "readFile"]

\* req.on('end') of a route that reads a body.
BodyEnd(d, body, fsOk) ==
    IF body = "malformed"
    THEN RouteCatch(d, FALSE)
    ELSE IF d.route.validates /\ body = "missing"
    THEN Answer(d, Response(400, Json, {"error"}))
    ELSE RouteWork(d, fsOk)

Settled(d, outcome) ==
    IF outcome = "resolves" \/ d.route.work = "workflow"
    THEN Answer(d, Response(200, Json, {"data"}))
    ELSE RouteCatch(d, outcome = "rejects INVALID_INSTITUTION")

DoorIdle ==
    /\ door = IdleDoor
    /\ disk = DiskFiles({})

DoorInit ==
    /\ door = IdleDoor
    /\ \E env \in EnvFileContents : disk = DiskFiles(env)

\* A request arrives and the request listener runs.
Receive ==
    /\ door.pc \in {"idle", "closed"}
    /\ \E method \in {"GET", "POST", "OPTIONS"}, url \in Urls,
          hostOk \in BOOLEAN, fsOk \in BOOLEAN :
        door' = RequestListener(method, url, hostOk, fsOk)
    /\ UNCHANGED disk
    /\ UNCHANGED notDoor

\* The body of the request has been read.
RequestEnd ==
    /\ door.pc = "body"
    /\ \E body \in {"malformed", "missing", "complete"}, fsOk \in BOOLEAN :
        door' = BodyEnd(door, body, fsOk)
    /\ UNCHANGED disk
    /\ UNCHANGED notDoor

\* The awaited promise settles.
Settle ==
    /\ door.pc = "await"
    /\ \E outcome \in {"resolves", "rejects", "rejects INVALID_INSTITUTION"} :
        door' = Settled(door, outcome)
    /\ UNCHANGED disk
    /\ UNCHANGED notDoor

\* The callback of fs.readFile runs.
ReadFileDone ==
    /\ door.pc = "readFile"
    /\ door' = Answer(door, ServeFile(disk, door.url))
    /\ UNCHANGED disk
    /\ UNCHANGED notDoor

DoorNext ==
    \/ Receive
    \/ RequestEnd
    \/ Settle
    \/ ReadFileDone

(***************************************************************************)
(* Plaid balances: the /api/plaid/balances route and getPlaidBalances      *)
(***************************************************************************)
\* JSON.stringify of a value: NaN becomes null, a property that is
\* undefined is left out (it stays undefined), the rest is kept.
JsonStringify(v) == IF v.k = "NaN" THEN Null ELSE v

\* The options object of a balances request; k tells whether the request
\* carries one ("object"), carries null, or carries none ("undefined").
BalanceOptions(k, accountIds, minLastUpdated) ==
    [k |-> k, account_ids |-> accountIds, min_last_updated_datetime |-> minLastUpdated]

NoOptions == BalanceOptions("undefined", Undefined, Undefined)

\* The bodies posted to /api/plaid/balances.
BalancesBodies ==
    {[access_token |-> t, options |-> o] :
        t \in {Str(x) : x \in {"access-sandbox-1", "access-sandbox-2"}} \cup {Undefined},
        o \in {NoOptions, BalanceOptions("null", Undefined, Undefined)}
              \cup {BalanceOptions("object", ids, min) :
                        ids \in {Undefined, Arr("", 0), Arr("a1", 1), Arr("a1,a2", 2)},
                        min \in {Undefined, Null, Str(""), Str("2024-01-01T00:00:00Z"),
                                 Str("2024-06-15T12:30:00+02:00"), Num(1700000000)}}}

\* options || {}
\* Variant: the timestamp is added only next to an account filter.
getPlaidBalances_MinOnlyWithAccounts(accessToken, options) ==
    LET filtered == Truthy(options.account_ids) /\ options.account_ids.n > 0
    IN  [client_id |-> PLAID_CONFIG.client_id,
         secret |-> PLAID_CONFIG.secret,
         access_token |-> JsonStringify(accessToken),
         options |->
            IF filtered
            THEN BalanceOptions("object", JsonStringify(options.account_ids),
                    IF Truthy(options.min_last_updated_datetime)
                    THEN JsonStringify(options.min_last_updated_datetime)
                    ELSE Undefined)
            ELSE NoOptions]

\* The body getPlaidBalances posts to /accounts/balance/get: requestBody
\* after JSON.stringify.
getPlaidBalances(accessToken, options) ==
    [client_id |-> PLAID_CONFIG.client_id,
     secret |-> PLAID_CONFIG.secret,
     access_token |-> JsonStringify(accessToken),
     options |->
        IF Truthy(options.account_ids) \/ Truthy(options.min_last_updated_datetime)
        THEN BalanceOptions("object",
                IF Truthy(options.account_ids) /\ options.account_ids.n > 0
                THEN JsonStringify(options.account_ids)
                ELSE Undefined,
                IF Truthy(options.min_last_updated_datetime)
                THEN JsonStringify(options.min_last_updated_datetime)
                ELSE Undefined)
        ELSE NoOptions]

IdleBalances ==
    [pc |-> "idle",
     body |-> [access_token |-> Undefined, options |-> NoOptions],
     sent |-> [client_id |-> "", secret |-> "", access_token |-> Undefined,
               options |-> NoOptions],
     calls |-> 0,
     response |-> Response(0, "", {})]

BalancesInit == bal = IdleBalances

\* POST /api/plaid/balances: 400 without access_token, otherwise
\* getPlaidBalances(access_token, options || {}) up to its await.
PlaidBalancesRoute(body) ==
    IF ~Truthy(body.access_token)
    THEN [IdleBalances EXCEPT !.pc = "done", !.body = body,
                              !.response = Response(400, Json, {"error"})]
    ELSE [IdleBalances EXCEPT !.pc = "await", !.body = body, !.calls = 1,
                              !.sent = getPlaidBalances(
                                  body.access_token,
                                  IF body.options.k = "object" THEN body.options
                                  ELSE BalanceOptions("object", Undefined, Undefined))]

BalancesRequest ==
    /\ bal.pc \in {"idle", "done"}
    /\ \E body \in BalancesBodies : bal' = PlaidBalancesRoute(body)
    /\ UNCHANGED notBalances

\* Plaid answers /accounts/balance/get and the route answers the browser.
BalancesResponse ==
    /\ bal.pc = "await"
    /\ \E status \in {0, 200, 400} :
        LET r == makeRequest(status, Str("balances"), <<"INVALID_ACCESS_TOKEN">>)
        IN  bal' = [bal EXCEPT !.pc = "done",
                               !.response = IF r.ok THEN Response(200, Json, {"accounts"})
                                            ELSE Response(500, Json, {"error"})]
    /\ UNCHANGED notBalances

BalancesNext ==
    \/ BalancesRequest
    \/ BalancesResponse

(***************************************************************************)
(* The wallet page: crypto-wallet-app.js                                   *)
(***************************************************************************)
EthereumAddress == "0xA11CE"

SolanaAddress == "So1ana"

demoAddress == "0x742d35Cc6634C0532925a3b844Bc9e7595f0bEb"

\* connectedWallet = null
NoWallet == [provider |-> "null", address |-> "", demo |-> FALSE]

Wallet(provider, address) == [provider |-> provider, address |-> address, demo |-> FALSE]

NotVerifying == [pc |-> "idle", message |-> "", asked |-> "", signature |-> ""]

WalletIdle(injected) ==
    [injected |-> injected,
     connectedWallet |-> NoWallet,
     currentProvider |-> "null",
     appKit |-> FALSE,
     subscribed |-> FALSE,
     verifyOwnershipBtn |-> "none",
     cryptoResults |-> "",
     walletDetails |-> "",
     signatureResults |-> "",
     verify |-> NotVerifying,
     fetch |-> [route |-> "", provider |-> "", address |-> "", message |-> ""]]

WalletInit ==
    \E injected \in {{}, {"ethereum"}, {"ethereum", "coinbase"}, {"ethereum", "trust"},
                     {"solana"}, {"ethereum", "solana"}} :
        wallet = WalletIdle(injected)

\* The catch of the Connect Wallet button's handler.
ConnectionFailed(w) == [w EXCEPT !.cryptoResults = "Connection Failed"]

\* connectMetaMask; name is the provider name its callers leave in
\* connectedWallet (connectCoinbaseWallet and connectTrustWallet rename it
\* after connectMetaMask has returned).
connectMetaMask(w, name, accepted) ==
    IF "ethereum" \notin w.injected \/ ~accepted
    THEN ConnectionFailed(w)
    ELSE [w EXCEPT !.connectedWallet = Wallet(name, EthereumAddress),
                   !.currentProvider = "ethereum",
                   !.cryptoResults = "Connected",
                   !.walletDetails = "Connection Successful",
                   !.verifyOwnershipBtn = "block"]

connectPhantom(w, accepted) ==
    IF "solana" \notin w.injected \/ ~accepted
    THEN ConnectionFailed(w)
    ELSE [w EXCEPT !.connectedWallet = Wallet("Phantom", SolanaAddress),
                   !.currentProvider = "solana",
                   !.cryptoResults = "Connected",
                   !.walletDetails = "Connection Successful",
                   !.verifyOwnershipBtn = "block"]

\* connectWalletConnect: creates appKit once, opens its modal and subscribes
\* to account updates; a failure of the import or of open() is thrown.
connectWalletConnect(w, accepted) ==
    IF ~accepted
    THEN ConnectionFailed(w)
    ELSE [w EXCEPT !.appKit = TRUE, !.subscribed = TRUE,
                   !.cryptoResults = "WalletConnect Modal"]

connectWallet(w, provider, accepted) ==
    CASE provider = "metamask" -> connectMetaMask(w, "MetaMask", accepted)
      [] provider = "coinbase" ->
            IF "coinbase" \in w.injected
            THEN connectMetaMask(w, "Coinbase Wallet", accepted)
            ELSE ConnectionFailed(w)
      [] provider = "trust" ->
            IF "trust" \in w.injected
            THEN connectMetaMask(w, "Trust Wallet", accepted)
            ELSE ConnectionFailed(w)
      [] provider = "phantom" -> connectPhantom(w, accepted)
      [] provider = "walletconnect" -> connectWalletConnect(w, accepted)
      [] OTHER -> ConnectionFailed(w)

\* The callback given to appKit.subscribeAccount, for a connected account.
subscribeAccount(w) ==
    [w EXCEPT !.connectedWallet = Wallet("WalletConnect", EthereumAddress),
              !.currentProvider = "appKit",
              !.cryptoResults = "Connected",
              !.walletDetails = "Disconnect WalletConnect",
              !.verifyOwnershipBtn = "block"]

\* disconnectWalletConnect after killSession() has resolved.
disconnectWalletConnect(w) ==
    [w EXCEPT !.connectedWallet = NoWallet,
              !.currentProvider = "null",
              !.cryptoResults = "Disconnected",
              !.walletDetails = "",
              !.verifyOwnershipBtn = "none"]

runMetaMaskDemo(w) ==
    [w EXCEPT !.cryptoResults = "Demo Mode",
              !.walletDetails = "Simulate Signature Verification",
              !.connectedWallet = [provider |-> "MetaMask (Demo)",
                                   address |-> demoAddress,
                                   demo |-> TRUE]]

simulateDemoSignature(w) == [w EXCEPT !.signatureResults = "Demo Signature Verified"]

\* The catch of the Verify Ownership button's handler.
VerificationFailed(w) ==
    [w EXCEPT !.signatureResults = "Verification Failed", !.verify = NotVerifying]

\* The object verifyOwnership asks for the signature.
Signer(w) ==
    CASE w.connectedWallet.provider = "Phantom" -> "solana"
      [] w.connectedWallet.provider = "WalletConnect" -> "ethereum"
      [] OTHER -> w.currentProvider

\* verifyOwnership up to the await of the signature.
verifyOwnership(w) ==
    IF w.connectedWallet = NoWallet \/ w.currentProvider = "null"
    THEN VerificationFailed(w)
    ELSE IF Signer(w) \in {"ethereum", "solana"} /\ Signer(w) \notin w.injected
    THEN VerificationFailed(w)
    ELSE [w EXCEPT !.verify = [pc |-> "signing",
                               message |-> w.connectedWallet.address,
                               asked |-> Signer(w),
                               signature |-> ""]]

\* verifyOwnership from the signature to the await of the backend's answer.
AfterSignature(w, signed) ==
    IF ~signed \/ w.connectedWallet = NoWallet
    THEN VerificationFailed(w)
    ELSE [w EXCEPT !.verify.pc = "verifying",
                   !.verify.signature = "signature",
                   !.fetch = [route |-> "/api/crypto/verify-signature", provider |-> "",
                              address |-> w.connectedWallet.address,
                              message |-> w.verify.message]]

\* The request saveConnection sends, built from connectedWallet.
saveConnection(w) ==
    [route |-> "/api/crypto/save-connection",
     provider |-> w.connectedWallet.provider,
     address |-> w.connectedWallet.address,
     message |-> w.verify.message]

\* verifyOwnership from the backend's answer to the await in saveConnection.
AfterVerification(w, success) ==
    IF ~success \/ w.connectedWallet = NoWallet
    THEN VerificationFailed(w)
    ELSE [w EXCEPT !.verify.pc = "saving",
                   !.signatureResults = "Ownership Verified",
                   !.fetch = saveConnection(w)]

\* The Connect Wallet button: the selected provider and whether the wallet
\* (or the user) accepts.
ConnectWallet ==
    /\ \E provider \in {"metamask", "coinbase", "trust", "phantom", "walletconnect",
                        "binance", "ledger"},
          accepted \in BOOLEAN :
        wallet' = connectWallet(wallet, provider, accepted)
    /\ UNCHANGED notWallet

AccountUpdate ==
    /\ wallet.subscribed
    /\ wallet' = subscribeAccount(wallet)
    /\ UNCHANGED notWallet

\* Only appKit has a session to kill; with any other provider killSession
\* throws and the handler changes nothing.
DisconnectWalletConnect ==
    /\ wallet.currentProvider = "appKit"
    /\ wallet' = disconnectWalletConnect(wallet)
    /\ UNCHANGED notWallet

RunMetaMaskDemo ==
    /\ wallet' = runMetaMaskDemo(wallet)
    /\ UNCHANGED notWallet

SimulateDemoSignature ==
    /\ wallet.walletDetails = "Simulate Signature Verification"
    /\ wallet' = simulateDemoSignature(wallet)
    /\ UNCHANGED notWallet

\* The Verify Ownership button, when shown and not disabled.
ClickVerifyOwnership ==
    /\ wallet.verifyOwnershipBtn = "block"
    /\ wallet.verify.pc = "idle"
    /\ wallet.connectedWallet # NoWallet
    /\ wallet' = verifyOwnership(wallet)
    /\ UNCHANGED notWallet

\* The wallet answers the signature request.
SignatureResult ==
    /\ wallet.verify.pc = "signing"
    /\ \E signed \in BOOLEAN : wallet' = AfterSignature(wallet, signed)
    /\ UNCHANGED notWallet

\* The backend answers /api/crypto/verify-signature.
VerificationResult ==
    /\ wallet.verify.pc = "verifying"
    /\ \E success \in BOOLEAN : wallet' = AfterVerification(wallet, success)
    /\ UNCHANGED notWallet

\* The backend answers /api/crypto/save-connection; saveConnection swallows
\* every failure.
SaveResult ==
    /\ wallet.verify.pc = "saving"
    /\ wallet' = [wallet EXCEPT !.verify = NotVerifying]
    /\ UNCHANGED notWallet

\* disconnectWallet(address) from the list of saved connections.
DisconnectWallet ==
    /\ \E address \in {EthereumAddress, SolanaAddress, demoAddress} :
        wallet' = [wallet EXCEPT !.fetch = [route |-> "/api/crypto/disconnect",
                                            provider |-> "", address |-> address,
                                            message |-> ""]]
    /\ UNCHANGED notWallet

WalletNext ==
    \/ ConnectWallet
    \/ AccountUpdate
    \/ DisconnectWalletConnect
    \/ RunMetaMaskDemo
    \/ SimulateDemoSignature
    \/ ClickVerifyOwnership
    \/ SignatureResult
    \/ VerificationResult
    \/ SaveResult
    \/ DisconnectWallet

(***************************************************************************)
(* The connection logs: /api/save-connection and                           *)
(* /api/plaid/save-connection of server.js                                 *)
(***************************************************************************)
\* connections/all_connections.json and
\* plaid-connections/all_plaid_connections.json are git-ignored: a fresh
\* checkout has neither.  A request slot holds the request whose body is
\* arriving (req.on('data')) or that has been answered.  History: at is the
\* place of the slot's record in its log, overlapped tells that the other
\* request was in flight at the same time.
ConnIdle ==
    [log |-> [k \in {"lean", "plaid"} |-> [exists |-> FALSE, records |-> <<>>]],
     files |-> {},
     reqs |-> [p \in {"s1", "s2"} |->
                 [pc |-> "idle", kind |-> "lean", body |-> "", status |-> 0,
                  at |-> 0, overlapped |-> FALSE]]]

\* Variant: the new record is put in front of the records read.
AppendToMasterLog_Prepends(file, dataToSave) ==
    [exists |-> TRUE,
     records |-> <<dataToSave>> \o (IF file.exists THEN file.records ELSE <<>>)]

\* Variant: the log file is written with the new record only.
AppendToMasterLog_Overwrites(file, dataToSave) ==
    [exists |-> TRUE, records |-> <<dataToSave>>]

\* let allConnections = [];
\* if (fs.existsSync(logFile)) { ... allConnections = JSON.parse(existing); }
\* allConnections.push(dataToSave);
\* fs.writeFileSync(logFile, JSON.stringify(allConnections, null, 2));
AppendToMasterLog(file, dataToSave) ==
    [exists |-> TRUE,
     records |-> Append(IF file.exists THEN file.records ELSE <<>>, dataToSave)]

\* req.on('end') of either route, all of it synchronous: JSON.parse(body),
\* the record with its timestamp, the individual file, the master log and
\* the 200 answer; any exception on the way goes to the catch block, which
\* answers 500.  fsOk: the directory and the individual file can be written.
SaveConnectionRoute(c, p, t, fsOk) ==
    LET r == c.reqs[p]
        dataToSave == [data |-> r.body, timestamp |-> t]
        file == AppendToMasterLog(c.log[r.kind], dataToSave)
    IN  IF r.body = "malformed" \/ ~fsOk
        THEN [c EXCEPT !.reqs[p].pc = "done", !.reqs[p].status = 500]
        ELSE [c EXCEPT !.files = @ \cup {<<r.kind, t>>},
                       !.log[r.kind] = file,
                       !.reqs[p].pc = "done",
                       !.reqs[p].status = 200,
                       !.reqs[p].at = Len(file.records)]

\* A save-connection request arrives: the route matches and the handler
\* waits for the body.
SaveConnectionReceive(p) ==
    /\ conn.reqs[p].pc \in {"idle", "done"}
    /\ \E kind \in {"lean", "plaid"}, body \in {"e1", "e2", "malformed"} :
        /\ Len(conn.log[kind].records) < MaxSaved
        /\ conn' = [conn EXCEPT !.reqs = [q \in DOMAIN conn.reqs |->
                IF q = p
                THEN [pc |-> "body", kind |-> kind, body |-> body, status |-> 0, at |-> 0,
                      overlapped |-> \E o \in DOMAIN conn.reqs : conn.reqs[o].pc = "body"]
                ELSE IF conn.reqs[q].pc = "body"
                     THEN [conn.reqs[q] EXCEPT !.overlapped = TRUE]
                     ELSE conn.reqs[q]]]
    /\ UNCHANGED notConn

\* The body of a request is complete: its 'end' callback runs.
SaveConnectionEnd(p) ==
    /\ conn.reqs[p].pc = "body"
    /\ \E fsOk \in BOOLEAN : conn' = SaveConnectionRoute(conn, p, now, fsOk)
    /\ UNCHANGED notConn

LogNext ==
    \/ \E p \in DOMAIN conn.reqs : SaveConnectionReceive(p)
    \/ \E p \in DOMAIN conn.reqs : SaveConnectionEnd(p)

(***************************************************************************)
(* Specifications                                                          *)
(***************************************************************************)
Init ==
    /\ LeanInit /\ PlaidInit /\ DoorIdle /\ BalancesInit /\ wallet = WalletIdle({})
    /\ conn = ConnIdle

InitFrontDoor ==
    /\ LeanInit /\ PlaidInit /\ DoorInit /\ BalancesInit /\ wallet = WalletIdle({})
    /\ conn = ConnIdle

\* The wallet page in each of the browsers it may be loaded in.
InitWallet ==
    /\ LeanInit /\ PlaidInit /\ DoorIdle /\ BalancesInit /\ WalletInit
    /\ conn = ConnIdle

\* The server with two request slots.
InitRace ==
    /\ apiAccessToken = Null
    /\ apiTokenExpiry = Null
    /\ now = 0
    /\ issued = 0
    /\ lastCustomerToken = NoCustomerToken
    /\ procs = [p \in {"r1", "r2"} |-> IdleProc]
    /\ PlaidInit /\ DoorIdle /\ BalancesInit /\ wallet = WalletIdle({})
    /\ conn = ConnIdle

Next == LeanNext

Spec == Init /\ [][Next]_vars

SpecPlaid == Init /\ [][PlaidNext]_vars

\* The Plaid page with both of its buttons.
SpecPlaidPage == Init /\ [][PlaidNext \/ OpenPlaidWithManualToken]_vars

SpecRace == InitRace /\ [][RaceNext]_vars

SpecLog == Init /\ [][LogNext]_vars

SpecFrontDoor == InitFrontDoor /\ [][DoorNext]_vars

SpecBalances == Init /\ [][BalancesNext]_vars

SpecWallet == InitWallet /\ [][WalletNext]_vars

(***************************************************************************)
(* Properties of the token lifecycle (checked under Spec)                  *)
(***************************************************************************)
CacheOps == ProxyOps \cup {"initializeCustomer"}

\* C1 as stated: for every scope (api and customer.<id>), no request goes to
\* the token endpoint while the token issued last for that scope is still
\* within its validity window.
C1_EveryScopeServedFromCache ==
    \A p \in DOMAIN procs :
        procs[p].req.kind = "token" => procs[p].req.scopeWindow # "open"

\* C1 amended: a call that consults the cache (createCustomer and the five
\* proxy functions) and finds the cached API token within its validity
\* window sends no request to the token endpoint; its vendor call carries
\* the cached token.
C1_CacheHitSendsNoTokenRequest ==
    \A p \in DOMAIN procs :
        procs[p].seen = "open" =>
            /\ procs[p].op \in CacheOps
            /\ procs[p].apiCalls = procs[p].callsAtCheck
            /\ procs[p].pc # "refresh"
            /\ procs[p].pc = "rest" =>
                  procs[p].req.cached /\ procs[p].req.bearer = apiAccessToken

C1_Witness ==
    \E p \in DOMAIN procs :
        /\ procs[p].op \in ProxyOps
        /\ procs[p].pc = "rest"
        /\ procs[p].seen = "open"
        /\ procs[p].apiCalls = 0
        /\ issued = 1

\* C2: a vendor REST request never carries a cached API token whose
\* expires_at is at or before the instant the request is sent.
C2_NoExpiredTokenOnRest ==
    \A p \in DOMAIN procs :
        (procs[p].req.kind = "rest" /\ procs[p].req.cached) =>
            procs[p].req.window # "closed"

C2_Witness ==
    \E p \in DOMAIN procs :
        /\ procs[p].req.kind = "rest"
        /\ procs[p].req.cached
        /\ procs[p].seen = "closed"
        /\ procs[p].req.window = "open"
        /\ now > 0

\* C3: an acquisition made at or after the cached token's expires_at sends
\* one fresh request to the token endpoint, and the dependent vendor REST
\* call is sent only once that request has completed.
C3_ExpiredTokenIsRefreshedFirst ==
    \A p \in DOMAIN procs :
        procs[p].seen = "closed" =>
            /\ procs[p].apiCalls = procs[p].callsAtCheck + 1
            /\ procs[p].pc = "refresh" =>
                  procs[p].req.kind = "token" /\ procs[p].restCalls = 0
            /\ procs[p].req.kind = "rest" => procs[p].apiDone = procs[p].apiCalls

C3_Witness ==
    \E p \in DOMAIN procs :
        /\ procs[p].seen = "closed"
        /\ procs[p].req.kind = "rest"
        /\ procs[p].apiDone = 1
        /\ procs[p].restCalls = 1

\* C4: an initializeCustomer whose customer-creation call failed has sent
\* no customer-scope token request, awaits nothing and has returned
\* {success: false, error}.
C4_FailFastAfterCreateFailure ==
    \A p \in DOMAIN procs :
        procs[p].createFailed =>
            /\ procs[p].custCalls = 0
            /\ procs[p].pc = "done"
            /\ procs[p].req.kind = "none"
            /\ procs[p].result.success = FALSE
            /\ procs[p].result.error # <<>>
            /\ procs[p].wf[Len(procs[p].wf)] = "FAILED"

C4_Witness ==
    \E p \in DOMAIN procs :
        /\ procs[p].createFailed
        /\ procs[p].op = "initializeCustomer"
        /\ procs[p].restCalls = 1
        /\ procs[p].pc = "done"

\* The customer-creation call of the workflow resolved.
CustomerCreated(pr) ==
    pr.op = "initializeCustomer" /\ Len(pr.wf) >= 3 /\ pr.wf[3] = "CUSTOMER_CREATED"

\* C5: when the customer-creation response lacks a customer identifier the
\* workflow ends in FAILED and no customer-scope token request is issued.
C5_MissingIdentifierIsFatal ==
    \A p \in DOMAIN procs :
        (CustomerCreated(procs[p]) /\ ~Truthy(CustomerIdOf(procs[p].createResp))) =>
            /\ procs[p].custCalls = 0
            /\ procs[p].pc = "done"
            /\ procs[p].result.success = FALSE

HappyPath == <<"START", "API_TOKEN_OBTAINED", "CUSTOMER_CREATED",
               "CUSTOMER_TOKEN_OBTAINED", "DONE">>

\* C6: an initializeCustomer that returned success: true went through
\* START, API_TOKEN_OBTAINED, CUSTOMER_CREATED, CUSTOMER_TOKEN_OBTAINED, DONE;
\* its customer-token request had scope "customer.<id>" for the identifier
\* the create call returned; and the result carries the vendor's values.
C6_SuccessMeansFullWorkflow ==
    \A p \in DOMAIN procs :
        (procs[p].op = "initializeCustomer" /\ procs[p].pc = "done"
            /\ procs[p].result.success) =>
            /\ procs[p].wf = HappyPath
            /\ Truthy(CustomerIdOf(procs[p].createResp))
            /\ procs[p].custScope = "customer." \o CustomerIdOf(procs[p].createResp).s
            /\ procs[p].result.customer_id = CustomerIdOf(procs[p].createResp)
            /\ procs[p].result.access_token = procs[p].custResp.access_token
            /\ procs[p].result.token_scope = procs[p].custResp.scope
            /\ procs[p].result.token_expires_in = procs[p].custResp.expires_in

\* C7: getCustomerAccessToken always sends a request with scope
\* "customer." + customerId to the token endpoint, also while a token of that
\* scope is still valid, and its answer leaves apiAccessToken and
\* apiTokenExpiry as they were.
C7_CustomerTokenFreshAndUncached ==
    [][\A p \in DOMAIN procs :
          /\ procs'[p].pc = "custToken" =>
                /\ procs'[p].req.kind = "token"
                /\ procs'[p].custCalls = 1
                /\ procs'[p].req.scope =
                      "customer." \o ToStr(IF procs'[p].op = "initializeCustomer"
                                           THEN procs'[p].customerId
                                           ELSE procs'[p].argCustomerId)
          /\ (procs[p].pc = "custToken" /\ procs'[p].pc # "custToken") =>
                /\ apiAccessToken' = apiAccessToken
                /\ apiTokenExpiry' = apiTokenExpiry
          /\ (procs'[p].pc = "done" /\ procs'[p].result.success
                /\ procs'[p].result.envelope = "workflow") => procs'[p].custCalls = 1
      ]_vars

C7_Witness ==
    \E p \in DOMAIN procs :
        /\ procs[p].pc = "done"
        /\ procs[p].op = "getTokensForCustomer"
        /\ procs[p].result.success
        /\ procs[p].result.access_token = Str("ctokA")
        /\ lastCustomerToken.scope = procs[p].custScope
        /\ Truthy(apiAccessToken)
        /\ apiAccessToken # procs[p].result.access_token

(***************************************************************************)
(* Properties of the link-token retry (checked under SpecPlaid)            *)
(***************************************************************************)
\* Plaid's answer number i was a failure carrying INVALID_INSTITUTION.
VendorSaidInvalidInstitution(i) ==
    /\ Len(fe.vendor) >= i
    /\ ~(fe.vendor[i].status >= 200 /\ fe.vendor[i].status < 300)
    /\ fe.vendor[i].status # 0
    /\ Includes(fe.vendor[i].text, "INVALID_INSTITUTION")

\* The answer number i delivered a link token.
Delivered(i) ==
    /\ Len(fe.responses) >= i
    /\ Ok(fe.responses[i])
    /\ Truthy(fe.responses[i].link_token)

\* The operation ended with the result of its answer number i.
FinalResultIs(i) ==
    IF Delivered(i)
    THEN /\ plaidLinkToken = fe.responses[i].link_token
         /\ fe.opened \/ fe.error = <<"Plaid Link SDK not loaded">>
    ELSE /\ ~fe.opened
         /\ fe.error # <<>>
         /\ (Len(fe.responses) >= i /\ ~Ok(fe.responses[i])) =>
                fe.error = fe.responses[i].error

\* C8: when the first request carried an institution_id and Plaid answered
\* INVALID_INSTITUTION, exactly one retry is posted, without institution_id
\* and for the same user, and the retry's result is the operation's result.
C8_InvalidInstitutionRetriedOnce ==
    (/\ Len(fe.responses) >= 1
     /\ Truthy(fe.sent[1].institution_id)
     /\ VendorSaidInvalidInstitution(1)) =>
        /\ fe.pc \in {"delay", "retry", "done"}
        /\ fe.pc = "delay" => Len(fe.sent) = 1
        /\ fe.pc \in {"retry", "done"} =>
              /\ Len(fe.sent) = 2
              /\ fe.sent[2] = [user_id |-> fe.sent[1].user_id, institution_id |-> Undefined]
        /\ fe.pc = "done" => FinalResultIs(2)

C8_Witness ==
    /\ fe.pc = "done"
    /\ Truthy(fe.sent[1].institution_id)
    /\ VendorSaidInvalidInstitution(1)
    /\ Len(fe.sent) = 2
    /\ Delivered(2)
    /\ fe.opened

\* C9: one initializePlaid posts at most two create-link-token requests, and
\* the server forwards at most two to Plaid, also when the retry is answered
\* with INVALID_INSTITUTION.
C9_AtMostOneRetry ==
    /\ Len(fe.sent) <= 2
    /\ Len(fe.vendor) <= 2
    /\ VendorSaidInvalidInstitution(2) => fe.pc \in {"retry", "done"}

C9_Witness ==
    /\ fe.pc = "done"
    /\ Len(fe.sent) = 2
    /\ VendorSaidInvalidInstitution(1)
    /\ VendorSaidInvalidInstitution(2)
    /\ fe.error = fe.responses[2].error

\* C10: when the first call fails for a reason other than
\* INVALID_INSTITUTION (another vendor error, a socket error, a 2xx body
\* without link token, an unreachable server), the failure is surfaced and
\* no second request is posted.
C10_OtherFailuresNotRetried ==
    /\ (/\ Len(fe.responses) >= 1
        /\ ~VendorSaidInvalidInstitution(1)
        /\ ~Delivered(1)) =>
            /\ fe.pc = "done"
            /\ Len(fe.sent) = 1
            /\ FinalResultIs(1)
    /\ (fe.pc = "done" /\ fe.responses = <<>>) =>
            /\ Len(fe.sent) = 1
            /\ fe.error = <<"Failed to fetch">>
            /\ ~fe.opened

C10_Witness ==
    /\ fe.pc = "done"
    /\ Len(fe.sent) = 1
    /\ Len(fe.vendor) = 1
    /\ fe.vendor[1].status = 500
    /\ Truthy(fe.sent[1].institution_id)
    /\ fe.responses[1].error_type = "SERVER_ERROR"
    /\ fe.error = fe.responses[1].error

\* C11 as stated: a create-link-token request with an institution_id that
\* Plaid rejects with INVALID_INSTITUTION is answered with HTTP 200 and a
\* link_token.
C11_EndpointAnswersSuccess ==
    (/\ net.stage = "toBrowser"
     /\ Truthy(net.body.institution_id)
     /\ VendorSaidInvalidInstitution(Len(fe.vendor))) =>
        /\ net.response.status = 200
        /\ Truthy(net.response.link_token)

\* C11 amended: the endpoint forwards the request to Plaid once, with the
\* institution_id, and answers Plaid's INVALID_INSTITUTION with HTTP 400,
\* error_type INVALID_INSTITUTION, the vendor's message and no link_token;
\* the retry is a second request of the front end.
C11_EndpointAnswersInvalidInstitution ==
    (/\ net.stage = "toBrowser"
     /\ Truthy(net.body.institution_id)
     /\ VendorSaidInvalidInstitution(Len(fe.vendor))) =>
        /\ net.response.status = 400
        /\ net.response.error_type = "INVALID_INSTITUTION"
        /\ Includes(net.response.error, "INVALID_INSTITUTION")
        /\ ~Truthy(net.response.link_token)
        /\ net.vendorBody.institution_id = net.body.institution_id
        /\ Len(fe.vendor) = Len(fe.sent)

C11_Witness ==
    /\ net.stage = "toBrowser"
    /\ Truthy(net.body.institution_id)
    /\ VendorSaidInvalidInstitution(Len(fe.vendor))
    /\ Len(fe.sent) = 1
    /\ net.response.status = 400

(***************************************************************************)
(* Properties of the error handling of the Lean routes (checked under      *)
(* Spec)                                                                   *)
(***************************************************************************)
\* The request of the slot ended in a failure.
Failed(pr) ==
    pr.pc = "done" /\ pr.result.envelope \in {"error", "workflow"} /\ ~pr.result.success

\* C12: every failure of a route, those of the initialize-customer and
\* get-customer-tokens workflows included, is answered with a JSON error
\* envelope whose HTTP status is 400 for a validation failure and 500 for
\* everything else.
C12_FailuresAnswered400Or500 ==
    \A p \in DOMAIN procs :
        Failed(procs[p]) =>
            /\ procs[p].result.error # <<>>
            /\ procs[p].result.http \in {400, 500}
            /\ procs[p].result.http = 400 <=> procs[p].missing

\* C13: a request that lacks a required field (app_user_id for
\* initialize-customer, customer_id for get-customer-tokens, entity_id for
\* the account routes, customer_id and entity_id for consents, these and
\* consent_id for consents/delete) is answered 400 at once: it makes no call
\* to the vendor and leaves the token cache as it was.
C13_MissingFieldRejectedBeforeAnyCall ==
    [][\A p \in DOMAIN procs :
          procs'[p].missing =>
              /\ procs'[p].pc = "done"
              /\ procs'[p].result.http = 400
              /\ procs'[p].result.envelope = "error"
              /\ procs'[p].apiCalls = 0
              /\ procs'[p].custCalls = 0
              /\ procs'[p].restCalls = 0
              /\ procs'[p] # procs[p] =>
                    /\ apiAccessToken' = apiAccessToken
                    /\ apiTokenExpiry' = apiTokenExpiry
      ]_vars

\* The last call of the slot's request was answered with a failure: a
\* status that is not 2xx, or no status at all (0, the socket failed).
VendorFailed(pr) ==
    /\ pr.answers # <<>>
    /\ ~(pr.answers[Len(pr.answers)] >= 200 /\ pr.answers[Len(pr.answers)] < 300)

\* C14: a proxy call (accounts, balances, transactions, consents, delete
\* consent) whose vendor call failed is not retried, and the failure is
\* answered with the vendor's HTTP status when there is one and with 500
\* when there is none.
C14_VendorStatusSurfaced ==
    \A p \in DOMAIN procs :
        (procs[p].op \in ProxyOps /\ procs[p].pc = "done" /\ VendorFailed(procs[p])) =>
            /\ procs[p].restCalls <= 1
            /\ procs[p].apiCalls <= 1
            /\ Len(procs[p].answers) = procs[p].apiCalls + procs[p].restCalls
            /\ ~procs[p].result.success
            /\ procs[p].result.error # <<>>
            /\ procs[p].result.http =
                  IF procs[p].answers[Len(procs[p].answers)] = 0
                  THEN 500
                  ELSE procs[p].answers[Len(procs[p].answers)]

\* C15: when the vendor rejects the DELETE of a consent (one that does not
\* exist, for instance), /api/consents/delete answers with the vendor's
\* error and never with success: true.
C15_RejectedDeleteIsNotSuccess ==
    \A p \in DOMAIN procs :
        (/\ procs[p].op = "deleteConsent"
         /\ procs[p].pc = "done"
         /\ procs[p].restCalls = 1
         /\ VendorFailed(procs[p])) =>
            /\ ~procs[p].result.success
            /\ procs[p].result.envelope = "error"
            /\ procs[p].result.http # 200
            /\ procs[p].result.error # <<>>
            /\ procs[p].answers[Len(procs[p].answers)] # 0 =>
                  Includes(procs[p].result.error, "HTTP")

C15_Witness ==
    \E p \in DOMAIN procs :
        /\ procs[p].op = "deleteConsent"
        /\ procs[p].pc = "done"
        /\ procs[p].restCalls = 1
        /\ procs[p].answers[Len(procs[p].answers)] = 401
        /\ procs[p].result.http = 500
        /\ procs[p].result.error = <<"HTTP", "401:">> \o LeanErrorText

(***************************************************************************)
(* Properties of the 2-step flow (checked under Spec)                      *)
(***************************************************************************)
\* Every call of the slot's request was answered with a 2xx status.
AllAnswered2xx(pr) ==
    \A i \in 1..Len(pr.answers) : pr.answers[i] >= 200 /\ pr.answers[i] < 300

\* C18: getTokensForCustomer(customerId) never calls the customer-creation
\* endpoint and never enters CUSTOMER_CREATED; it requests the token of
\* scope "customer.<customerId>" only after its API-token call was answered
\* with success; it returns {success: false, error} exactly when one of
\* its two token calls failed, and success: true after both succeeded.
C18_TwoStepFlowSkipsProvisioning ==
    \A p \in DOMAIN procs :
        (procs[p].op = "getTokensForCustomer" /\ ~procs[p].missing
            /\ procs[p].wf # <<>>) =>
            /\ procs[p].restCalls = 0
            /\ ~Includes(procs[p].wf, "CUSTOMER_CREATED")
            /\ procs[p].apiCalls = 1
            /\ procs[p].custCalls <= 1
            /\ procs[p].custCalls = 1 =>
                  /\ procs[p].apiDone = 1
                  /\ procs[p].answers[1] = 200
                  /\ procs[p].custScope = "customer." \o procs[p].argCustomerId.s
            /\ procs[p].pc = "custToken" => procs[p].req.scope = procs[p].custScope
            /\ procs[p].pc = "done" =>
                  /\ procs[p].result.envelope = "workflow"
                  /\ procs[p].result.success <=> ~VendorFailed(procs[p])
                  /\ procs[p].result.success =>
                        /\ Len(procs[p].answers) = 2
                        /\ AllAnswered2xx(procs[p])
                        /\ procs[p].result.customer_id = procs[p].argCustomerId
                  /\ ~procs[p].result.success =>
                        /\ procs[p].result.error # <<>>
                        /\ procs[p].wf[Len(procs[p].wf)] = "FAILED"
                        /\ Len(procs[p].answers) = procs[p].apiCalls + procs[p].custCalls

C18_Witness ==
    \E p \in DOMAIN procs :
        /\ procs[p].op = "getTokensForCustomer"
        /\ procs[p].pc = "done"
        /\ procs[p].answers = <<200, 401>>
        /\ procs[p].custCalls = 1
        /\ ~procs[p].result.success
        /\ procs[p].wf = <<"START", "API_TOKEN_OBTAINED", "FAILED">>

(***************************************************************************)
(* Properties of the front door (checked under SpecFrontDoor)              *)
(***************************************************************************)
Secrets == {LEAN_CONFIG.client_secret, PLAID_CONFIG.secret}

\* The piece of text carries one of the secrets.
CarriesSecret(text) ==
    \/ text \in Secrets
    \/ \E secret \in Secrets :
         text \in {"LEAN_CLIENT_SECRET=" \o secret, "PLAID_SECRET=" \o secret}

\* C16: whatever the path and the method of a request, no answer of the
\* server carries the Lean client_secret or the Plaid secret.
C16_NoResponseCarriesSecret ==
    \A i \in 1..Len(door.written) :
        \A text \in door.written[i].body : ~CarriesSecret(text)

\* The request is made to the API: GET or POST of a path under /api/.
ApiRequest(d) == IsPrefix(Api, d.url) /\ d.method \in {"GET", "POST"}

\* C17: every API request is answered exactly once and with a JSON body: no
\* handler ends without an answer and none answers twice.
C17_ExactlyOneJsonResponse ==
    /\ Len(door.written) <= 1
    /\ (door.pc = "closed" /\ ApiRequest(door)) =>
          /\ Len(door.written) = 1
          /\ door.written[1].type = Json

(***************************************************************************)
(* Properties of the balances request (checked under SpecBalances)         *)
(***************************************************************************)
\* C19: a balances request whose min_last_updated_datetime is set reaches
\* Plaid with that value unchanged in the options of the vendor request,
\* whether account_ids is absent, empty or not empty, and the account filter
\* is sent exactly when it is not empty.
C19_MinLastUpdatedSentVerbatim ==
    (/\ bal.calls = 1
     /\ bal.body.options.k = "object"
     /\ Truthy(bal.body.options.min_last_updated_datetime)) =>
        /\ bal.sent.options.k = "object"
        /\ bal.sent.options.min_last_updated_datetime =
              bal.body.options.min_last_updated_datetime
        /\ bal.sent.access_token = bal.body.access_token
        /\ bal.sent.options.account_ids =
              IF Truthy(bal.body.options.account_ids) /\ bal.body.options.account_ids.n > 0
              THEN bal.body.options.account_ids
              ELSE Undefined

C19_Witness ==
    /\ bal.pc = "done"
    /\ bal.calls = 1
    /\ bal.body.options.account_ids = Arr("", 0)
    /\ bal.body.options.min_last_updated_datetime = Str("2024-06-15T12:30:00+02:00")
    /\ bal.sent.options.min_last_updated_datetime = Str("2024-06-15T12:30:00+02:00")
    /\ bal.response.status = 200

TokenEndpointRefused(pr) ==
    /\ pr.pc = "done"
    /\ VendorFailed(pr)
    /\ pr.answers[Len(pr.answers)] # 0
    /\ pr.apiCalls > pr.apiDone \/ (pr.custCalls > 0 /\ ~pr.createFailed)

\* C22: when the token endpoint answers with a non-2xx status, the
\* acquisition fails, and the failure carries the vendor's status code and
\* the vendor's response body.
C22_AuthFailureCarriesStatusAndBody ==
    \A p \in DOMAIN procs :
        TokenEndpointRefused(procs[p]) =>
            /\ ~procs[p].result.success
            /\ procs[p].result.http # 200 \/ procs[p].result.envelope = "workflow"
            /\ procs[p].result.error =
                  <<"HTTP", ToString(procs[p].answers[Len(procs[p].answers)]) \o ":">>
                      \o LeanErrorText

C22_Witness ==
    \E p \in DOMAIN procs :
        /\ TokenEndpointRefused(procs[p])
        /\ procs[p].op = "getAccounts"
        /\ procs[p].seen = "none"
        /\ procs[p].apiCalls = 1
        /\ procs[p].result.error = <<"HTTP", "401:", "unauthorized">>

\* C27: a call to the token endpoint that fails (non-2xx answer or socket
\* error) leaves the cached token and its expiry as they were, and the
\* operation that made the call ends without sending a REST request.
C27_FailedRefreshChangesNothing ==
    [][\A p \in DOMAIN procs :
          ( /\ procs[p].pc \in {"step1", "refresh"}
            /\ Len(procs'[p].answers) = Len(procs[p].answers) + 1
            /\ procs'[p].apiDone = procs[p].apiDone )
          => /\ apiAccessToken' = apiAccessToken
             /\ apiTokenExpiry' = apiTokenExpiry
             /\ procs'[p].restCalls = procs[p].restCalls
             /\ procs'[p].custCalls = procs[p].custCalls
             /\ procs'[p].req = NoReq
             /\ procs'[p].pc = "done"]_vars

\* A refresh of a filled, expired cache has failed.
C27_Witness ==
    \E p \in DOMAIN procs :
        /\ procs[p].pc = "done"
        /\ procs[p].op = "getAccounts"
        /\ procs[p].apiCalls = 1
        /\ procs[p].apiDone = 0
        /\ procs[p].restCalls = 0
        /\ apiAccessToken = Token(1)
        /\ apiTokenExpiry.k = "number"
        /\ TokenExpired(apiAccessToken, apiTokenExpiry, now)

\* C28: once the token endpoint has answered a request of the slot with a
\* 2xx status, the cache holds a non-empty token and a finite expiry (the
\* response time plus expires_in seconds).
C28_CacheUsableAfterAny2xx ==
    \A p \in DOMAIN procs :
        procs[p].apiDone > 0 =>
            /\ Truthy(apiAccessToken)
            /\ apiTokenExpiry.k = "number"

\* C29: the REST request of getLeanBanks carries as bearer the token that
\* the token call before it returned (the one the cache holds).
C29_BanksBearerIsReturnedToken ==
    \A p \in DOMAIN procs :
        (procs[p].op = "getLeanBanks" /\ procs[p].req.kind = "rest") =>
            /\ Truthy(procs[p].req.bearer)
            /\ procs[p].req.bearer = apiAccessToken

(***************************************************************************)
(* Properties of the link-token endpoint and of Plaid Link (checked under  *)
(* SpecPlaid)                                                              *)
(***************************************************************************)
\* The vendor call of the exchange in flight failed: Plaid answered with a
\* non-2xx status or the socket failed.
VendorCallFailed ==
    /\ net.stage = "toBrowser"
    /\ Len(fe.vendor) >= 1
    /\ ~(fe.vendor[Len(fe.vendor)].status >= 200 /\ fe.vendor[Len(fe.vendor)].status < 300)

\* C23: the endpoint answers a failed vendor call with HTTP 400 and
\* error_type INVALID_INSTITUTION exactly when the failure is Plaid's
\* INVALID_INSTITUTION error, and with HTTP 500 and error_type SERVER_ERROR
\* for every other failure.
C23_ErrorTypeFollowsVendorFailure ==
    VendorCallFailed =>
        /\ ~Truthy(net.response.link_token)
        /\ IF VendorSaidInvalidInstitution(Len(fe.vendor))
           THEN /\ net.response.status = 400
                /\ net.response.error_type = "INVALID_INSTITUTION"
           ELSE /\ net.response.status = 500
                /\ net.response.error_type = "SERVER_ERROR"

\* Plaid could not be reached and the endpoint answered 500 / SERVER_ERROR.
C23_Witness ==
    /\ VendorCallFailed
    /\ fe.vendor[Len(fe.vendor)].status = 0
    /\ net.response.status = 500
    /\ net.response.error_type = "SERVER_ERROR"
    /\ net.response.error = SocketError

\* The step hands an answer of the endpoint to initializePlaid.
AnswerArrives == net.stage = "toBrowser" /\ net'.stage = "none"

\* The answer in flight is ok and contains a link_token.
ValidLinkTokenAnswer ==
    net.stage = "toBrowser" /\ Ok(net.response) /\ Truthy(net.response.link_token)

\* An answer that is not ok or has no link_token changes neither
\* plaidLinkToken nor plaidHandler and opens nothing.
InvalidAnswerOpensNothing ==
    (AnswerArrives /\ ~ValidLinkTokenAnswer) =>
        /\ plaidLinkToken' = plaidLinkToken
        /\ plaidHandler' = plaidHandler
        /\ ~fe'.opened

\* C30 as stated: on the Plaid page, Plaid Link is created and opened only
\* with the link_token of an endpoint answer that was ok and contained one;
\* an answer that is not ok or has no link_token leaves plaidLinkToken and
\* plaidHandler unchanged and opens nothing.
C30_LinkOpenedOnlyWithServedToken ==
    [][/\ plaidHandler' # plaidHandler =>
             /\ AnswerArrives
             /\ ValidLinkTokenAnswer
             /\ plaidHandler' = net.response.link_token
       /\ InvalidAnswerOpensNothing]_vars

\* C30 amended: initializePlaid creates and opens Plaid Link only with the
\* link_token of an answer that was ok and contained one, and an answer that
\* is not ok or has no link_token changes nothing; the only other step that
\* creates Plaid Link is openPlaidWithManualToken, with a non-empty token
\* the user pasted.
C30_InitializePlaidOpensOnlyWithServedToken ==
    [][/\ (AnswerArrives /\ (plaidHandler' # plaidHandler \/ fe'.opened)) =>
             /\ ValidLinkTokenAnswer
             /\ plaidHandler' = net.response.link_token
             /\ plaidLinkToken' = net.response.link_token
             /\ fe'.opened
       /\ (~AnswerArrives /\ plaidHandler' # plaidHandler) =>
             /\ fe' = fe
             /\ Truthy(plaidHandler')
             /\ plaidLinkToken' = plaidHandler'
       /\ InvalidAnswerOpensNothing]_vars

\* The retry was answered without a link_token while Plaid Link created
\* from a pasted token stayed as it was.
C30_Witness ==
    /\ fe.pc = "done"
    /\ Len(fe.responses) = 2
    /\ ~Delivered(2)
    /\ ~fe.opened
    /\ plaidHandler = Str("link-sandbox-pasted")
    /\ plaidLinkToken = plaidHandler

(***************************************************************************)
(* Properties of the routing (checked under SpecFrontDoor)                 *)
(***************************************************************************)
\* /api/accounts/<id>/<word>, with or without a query string.
IsAccountPath(url, word) ==
    /\ Len(UrlPath(url)) = 8
    /\ SubSeq(UrlPath(url), 1, 5) = Api \o <<"accounts", "/">>
    /\ UrlPath(url)[6] # "/"
    /\ SubSeq(UrlPath(url), 7, 8) = <<"/", word>>

\* C24: a request is handled by an API handler only when its method and
\* path are exactly those of the handler's route; a longer path that starts
\* with /api/accounts or /api/plaid/institutions is not, and a balances or
\* transactions request is never handled by the list-accounts handler.
C24_ExactPathAndMethod ==
    (door.pc # "idle" /\ door.route.name # "static") =>
        /\ door.method = door.route.method
        /\ CASE door.route.match = "balances" -> IsAccountPath(door.url, "balances")
             [] door.route.match = "transactions" -> IsAccountPath(door.url, "transactions")
             [] OTHER -> UrlPath(door.url) = door.route.path
        /\ door.route.name = "accounts" =>
              /\ ~MatchesAccountPattern(door.url, "balances")
              /\ ~MatchesAccountPattern(door.url, "transactions")

(***************************************************************************)
(* Properties of concurrent refreshes (checked under SpecRace)             *)
(***************************************************************************)
\* Every step that changes the cache writes the token and the expiry of one
\* answer of the token endpoint, received at `now`.
CacheWrittenFromOneResponse ==
    (apiAccessToken' # apiAccessToken \/ apiTokenExpiry' # apiTokenExpiry) =>
        \E body \in ApiTokenAnswers :
            /\ apiAccessToken' = body.access_token
            /\ apiTokenExpiry' = ExpiryOf(now, body.expires_in)

\* C21: when concurrent requests observe an expired token and each issues
\* its own refresh, the cache holds the token and the expiry of one single
\* answer at every moment, and every request that waited for its refresh
\* goes on with a token the vendor issued.
C21_ConcurrentRefreshIsBenign ==
    [][/\ CacheWrittenFromOneResponse
       /\ \A p \in DOMAIN procs :
            (procs[p].pc = "refresh" /\ procs'[p].pc = "rest") =>
                \E n \in 1..issued' : procs'[p].req.bearer = Token(n)]_vars

(***************************************************************************)
(* Properties of the connection logs (checked under SpecLog)               *)
(***************************************************************************)
\* The step answers the save-connection request of slot p.
SaveAnswered(p) == conn.reqs[p].pc = "body" /\ conn'.reqs[p].pc = "done"

BothSavesSucceeded ==
    \A p \in DOMAIN conn.reqs :
        /\ conn.reqs[p].pc = "done"
        /\ conn.reqs[p].status = 200
        /\ conn.reqs[p].overlapped

\* The log of each request holds the request's record, and the two records
\* are two entries.
BothRecordsInLog ==
    /\ \A p \in DOMAIN conn.reqs :
        /\ conn.reqs[p].at \in 1..Len(conn.log[conn.reqs[p].kind].records)
        /\ conn.log[conn.reqs[p].kind].records[conn.reqs[p].at].data = conn.reqs[p].body
    /\ conn.reqs["s1"].kind = conn.reqs["s2"].kind => conn.reqs["s1"].at # conn.reqs["s2"].at

\* The bodies of two requests, both JSON, are arriving at the same time.
BothInFlight ==
    \A p \in DOMAIN conn.reqs :
        conn.reqs[p].pc = "body" /\ conn.reqs[p].body # "malformed"

\* C26 as stated: two save-connection requests handled concurrently can
\* race and lose data: from the state in which both are in flight, the two
\* steps that answer them can lead to a state in which both were answered
\* with success and the master log lacks one of the two records.
C26_LostRecordReachable ==
    BothInFlight =>
        ENABLED (LogNext /\ (ENABLED (LogNext /\
                    (BothSavesSucceeded /\ ~BothRecordsInLog)'))')

\* C26 amended: the read, push and write-back of a request are one
\* synchronous callback, so two concurrent requests cannot interleave them:
\* whenever both were answered with success, the log holds both records.
C26_ConcurrentSavesKeepBothRecords == BothSavesSucceeded => BothRecordsInLog

\* Two concurrent Lean saves, the request of s2 ended first.
C26_Witness ==
    /\ BothSavesSucceeded
    /\ conn.reqs["s1"].kind = "lean" /\ conn.reqs["s2"].kind = "lean"
    /\ conn.reqs["s1"].body = "e1" /\ conn.reqs["s2"].body = "e2"
    /\ conn.reqs["s2"].at = 1 /\ conn.reqs["s1"].at = 2
    /\ Len(conn.log["lean"].records) = 2

====
